---- MODULE Spec2Model ----
(***************************************************************************)
(* A state-machine model of the tfrecord package: the record framing of    *)
(* TFRecordWriter.write, the index builder create_index, the record        *)
(* stream reader reader.tfrecord_iterator, the shard partition it          *)
(* computes, and the multi-source sampler sample_iterators as it is driven *)
(* by MultiTFRecordDataset.                                                *)
(*                                                                         *)
(* Files are sequences of bytes (0..255).  32-bit words are sequences of   *)
(* bits, least significant bit first, because the checksum arithmetic     *)
(* needs values beyond the integers of the model checker.                  *)
(***************************************************************************)
EXTENDS Integers, Sequences, FiniteSets, TLC

(***************************************************************************)
(* Bounds of the model.                                                    *)
(***************************************************************************)
\* The most records one writer session writes.
MaxRecords == 3

\* The most workers of a DataLoader over a TFRecordDataset.
MaxDatasetWorkers == 2

\* The halves of the checksum values given to the masking run over
\* 0..MaxCrcHalf times 0x5555.
MaxCrcHalf == 3

\* The serialized records TFRecordWriter.write is given (the output of
\* serialize_tf_example, opaque to the framing): lengths 0, 1 and 2.
Payloads == { <<>>, <<10>>, <<18, 200>> }

(***************************************************************************)
(* Bytes, bits and words.                                                  *)
(***************************************************************************)
Byte == 0..255

Min(a, b) == IF a < b THEN a ELSE b

RECURSIVE ToBits(_, _)
\* The w low bits of the natural n, least significant first.
ToBits(n, w) == IF w = 0 THEN <<>> ELSE <<n % 2>> \o ToBits(n \div 2, w - 1)

RECURSIVE FromBits(_)
\* The natural a bit sequence (least significant first) stands for.
FromBits(b) == IF b = <<>> THEN 0 ELSE b[1] + 2 * FromBits(Tail(b))

\* A sequence given as a function, built into a tuple at once (a chain of
\* unevaluated functions would otherwise grow with every checksum step).
Tuple(s) == SubSeq(s, 1, Len(s))

\* The bit at place i (from 1) of b, 0 beyond its length.
BitAt(b, i) == IF i <= Len(b) THEN b[i] ELSE 0

\* Python's a ^ b on two bit sequences.
BitXor(a, b) ==
    Tuple([i \in 1..(IF Len(a) > Len(b) THEN Len(a) ELSE Len(b)) |->
        (BitAt(a, i) + BitAt(b, i)) % 2])

\* Python's a | b on two bit sequences.
BitOr(a, b) ==
    Tuple([i \in 1..(IF Len(a) > Len(b) THEN Len(a) ELSE Len(b)) |->
        IF BitAt(a, i) + BitAt(b, i) > 0 THEN 1 ELSE 0])

\* Python's a >> k.
ShiftRight(a, k) == IF k >= Len(a) THEN <<>> ELSE SubSeq(a, k + 1, Len(a))

\* Python's a << k: integers are unbounded, no bit is dropped.
ShiftLeft(a, k) == Tuple([i \in 1..k |-> 0]) \o a

RECURSIVE AddCarry(_, _, _, _)
AddCarry(a, b, i, c) ==
    IF i > Len(a) /\ i > Len(b)
    THEN (IF c = 1 THEN <<1>> ELSE <<>>)
    ELSE <<(BitAt(a, i) + BitAt(b, i) + c) % 2>>
         \o AddCarry(a, b, i + 1, (BitAt(a, i) + BitAt(b, i) + c) \div 2)

\* Python's a + b on two bit sequences (unbounded).
BitAdd(a, b) == AddCarry(a, b, 1, 0)

\* Python's a & 0xFFFFFFFF: the 32 low bits.
Low32(a) == Tuple([i \in 1..32 |-> BitAt(a, i)])

\* The four bytes of a 32-bit word, little-endian: struct.pack("<I", w).
PackI(w) == Tuple([k \in 1..4 |-> FromBits(SubSeq(w, 8 * (k - 1) + 1, 8 * k))])

(***************************************************************************)
(* CRC32C (Castagnoli), as the crc32c package computes it: reflected,      *)
(* polynomial 0x82F63B78, initial value and final xor 0xFFFFFFFF.          *)
(***************************************************************************)
\* 0x82F63B78, least significant bit first.
Crc32cPoly ==
    ToBits(15224, 16) \o ToBits(33526, 16)

Ones32 == Tuple([i \in 1..32 |-> 1])

\* One bit of the division: shift right, xor the polynomial if a 1 fell out.
CrcBit(c) ==
    IF c[1] = 1 THEN BitXor(Low32(ShiftRight(c, 1)), Crc32cPoly)
    ELSE Low32(ShiftRight(c, 1))

RECURSIVE CrcBits(_, _)
\* n bits of the division.
CrcBits(c, n) == IF n = 0 \/ c = <<>> THEN c ELSE CrcBits(CrcBit(c), n - 1)

\* The table entry of byte b: eight bits of the division of b.
CrcTable(b) == CrcBits(ToBits(b, 32), 8)

\* One byte into the register: table[(c ^ byte) & 0xFF] ^ (c >> 8).
CrcByte(c, b) ==
    BitXor(CrcTable(FromBits(SubSeq(BitXor(c, ToBits(b, 8)), 1, 8))), ShiftRight(c, 8))

RECURSIVE CrcUpdate(_, _)
\* The register c after the bytes of data.  (The test on c has the register
\* computed before the next byte is taken, which keeps the evaluation flat.)
CrcUpdate(c, data) ==
    IF data = <<>> \/ c = <<>> THEN c ELSE CrcUpdate(CrcByte(c, data[1]), Tail(data))

crc32c(data) == BitXor(CrcUpdate(Ones32, data), Ones32)

(***************************************************************************)
(* writer.py: the masked checksum and the frame.                          *)
(***************************************************************************)
\* mask = 0xa282ead8
CrcMask == ToBits(60120, 16) \o ToBits(41602, 16)

\* A masking that shifts by 17 and 15 instead.
masked_bytesRotatesBy17(c) ==
    PackI(Low32(BitAdd(BitOr(ShiftRight(c, 17), ShiftLeft(c, 15)), CrcMask)))

\* masked_bytes of TFRecordWriter.masked_crc for the checksum c:
\* ((crc >> 15) | (crc << 17)) + mask, cut to 32 bits, packed little-endian.
\* The left shift keeps all 49 bits.
masked_bytes(c) ==
    LET masked == BitAdd(BitOr(ShiftRight(c, 15), ShiftLeft(c, 17)), CrcMask)
    IN  PackI(Low32(masked))

\* TFRecordWriter.masked_crc.
masked_crc(data) == masked_bytes(crc32c(data))

RECURSIVE PackLE(_, _)
\* struct.pack("<Q", n) for k = 8: the k low bytes of n, little-endian.
PackLE(n, k) == IF k = 0 THEN <<>> ELSE <<n % 256>> \o PackLE(n \div 256, k - 1)

\* Lengths from 2^24 on exceed every file and buffer of the model; they are
\* all represented by this value.
HugeLength == 256 * 65536

\* A reader that takes the length field for big-endian.
UnpackQBigEndian(b) ==
    IF \E i \in 1..5 : b[i] # 0 THEN HugeLength
    ELSE b[8] + 256 * b[7] + 65536 * b[6]

\* struct.unpack("<Q", b): the unsigned little-endian value of 8 bytes.
UnpackQ(b) ==
    IF \E i \in 4..8 : b[i] # 0 THEN HugeLength
    ELSE b[1] + 256 * b[2] + 65536 * b[3]

\* The bytes TFRecordWriter.write appends for one serialized record.
Frame(record) ==
    LET length_bytes == PackLE(Len(record), 8)
    IN  length_bytes \o masked_crc(length_bytes) \o record \o masked_crc(record)

(***************************************************************************)
(* The index file: lines of whitespace-separated decimal fields.  A field  *)
(* is its sequence of decimal digits, a line the sequence of its fields.   *)
(***************************************************************************)
RECURSIVE Str(_)
\* str(n) for n >= 0.
Str(n) == IF n < 10 THEN <<n>> ELSE Str(n \div 10) \o <<n % 10>>

RECURSIVE ParseInt(_)
\* The int64 np.loadtxt reads from a field of decimal digits.
ParseInt(d) ==
    IF Len(d) = 1 THEN d[1]
    ELSE 10 * ParseInt(SubSeq(d, 1, Len(d) - 1)) + d[Len(d)]

\* The index file when create_index has not been run.
NoFile == [exists |-> FALSE, rows |-> <<>>]

\* np.loadtxt(index_path, dtype=np.int64)[:, 0].  loadtxt squeezes axes of
\* length one (ndmin=0): only a table of at least two lines and at least two
\* columns is two-dimensional, and [:, 0] raises IndexError on anything else.
LoadTxt(rows) ==
    IF \E i \in 1..Len(rows) : Len(rows[i]) # Len(rows[1])
    THEN [ok |-> FALSE, err |-> "ValueError"]
    ELSE IF Len(rows) < 2 \/ Len(rows[1]) < 2
    THEN [ok |-> FALSE, err |-> "IndexError"]
    ELSE [ok |-> TRUE, index |-> [i \in 1..Len(rows) |-> ParseInt(rows[i][1])]]

(***************************************************************************)
(* tools/tfrecord2idx.py: create_index.                                    *)
(***************************************************************************)
\* An index builder that takes every payload for one byte longer.
UnpackSignedQOneMore(b) ==
    IF \E i \in 4..8 : b[i] # 0 THEN 256 * 65536 ELSE b[1] + 256 * b[2] + 65536 * b[3] + 1

\* struct.unpack("q", b): signed; the machine is little-endian.
UnpackSignedQ(b) ==
    IF b[8] >= 128
    THEN (IF \A i \in 1..8 : b[i] = 255 THEN -1 ELSE -2)
    ELSE UnpackQ(b)

RECURSIVE IndexLines(_, _)
\* The lines create_index writes scanning f from offset current, and whether
\* it printed "Failed to parse TFRecord.".  A read past the end of the file
\* returns fewer bytes and raises nothing; unpack raises on fewer than 8
\* bytes, read on a negative size other than -1.
IndexLines(f, current) ==
    LET n == Len(f)
        got == Min(8, n - current)
        byte_len == SubSeq(f, current + 1, current + got)
        p1 == Min(n, current + got + 4)
        proto_len == UnpackSignedQ(byte_len)
        p2 == IF proto_len = -1 THEN n ELSE Min(n, p1 + proto_len)
        p3 == Min(n, p2 + 4)
        rest == IndexLines(f, p3)
    IN  IF got = 0 THEN [lines |-> <<>>, failed |-> FALSE]
        ELSE IF got # 8 THEN [lines |-> <<>>, failed |-> TRUE]
        ELSE IF proto_len < -1 THEN [lines |-> <<>>, failed |-> TRUE]
        ELSE [lines |-> << <<Str(current), Str(p3 - current)>> >> \o rest.lines,
              failed |-> rest.failed]

(***************************************************************************)
(* reader.py: tfrecord_iterator.                                           *)
(***************************************************************************)
\* len(datum_bytes) at the start: 1024 * 1024 in the code, scaled down so that
\* a record longer than the buffer exists in the model.
DatumBytesLen == 1

\* bytearray.zfill(width): a copy left-filled with ASCII "0" (48) to width,
\* the fill going after a leading sign ("+" 43, "-" 45).
Zfill(b, width) ==
    LET fill == Tuple([i \in 1..(width - Len(b)) |-> 48])
    IN  IF width <= Len(b) THEN b
        ELSE IF Len(b) > 0 /\ b[1] \in {43, 45} THEN <<b[1]>> \o fill \o Tail(b)
        ELSE fill \o b

\* A loop body whose read clears the rest of the scratch buffer.
ReadFrameClearsBuffer(f, p, buf) ==
    LET n == Len(f)
        length == UnpackQ(SubSeq(f, p + 1, p + 8))
        width == IF length > Len(buf) THEN (3 * length) \div 2 ELSE Len(buf)
        got == Min(length, n - (p + 12))
        filled == SubSeq(f, p + 13, p + 12 + got) \o Tuple([i \in 1..(width - got) |-> 0])
    IN  IF n - p < 8
        THEN [kind |-> "raise", err |-> "Failed to read the record size.", buf |-> buf]
        ELSE IF n - (p + 8) < 4
        THEN [kind |-> "raise", err |-> "Failed to read the start token.", buf |-> buf]
        ELSE IF length > n - (p + 12)
        THEN [kind |-> "raise", err |-> "Failed to read the record.", buf |-> buf]
        ELSE IF n - (p + 12 + length) < 4
        THEN [kind |-> "raise", err |-> "Failed to read the end token.", buf |-> filled]
        ELSE [kind |-> "yield", buf |-> filled, length |-> length, at |-> p,
              pos |-> p + 12 + length + 4]

\* One pass of the loop body of read_records at offset p of file f with the
\* scratch buffer buf: the frame is read field by field, each short read
\* raising; no checksum is compared.
ReadFrame(f, p, buf) ==
    LET n == Len(f)
        length == UnpackQ(SubSeq(f, p + 1, p + 8))
        grown == IF length > Len(buf) THEN Zfill(buf, (3 * length) \div 2) ELSE buf
        got == Min(length, n - (p + 12))
        filled == SubSeq(f, p + 13, p + 12 + got) \o SubSeq(grown, got + 1, Len(grown))
    IN  IF n - p < 8
        THEN [kind |-> "raise", err |-> "Failed to read the record size.", buf |-> buf]
        ELSE IF n - (p + 8) < 4
        THEN [kind |-> "raise", err |-> "Failed to read the start token.", buf |-> buf]
        ELSE IF length > n - (p + 12)
        THEN [kind |-> "raise", err |-> "Failed to read the record.",
              buf |-> IF length > Len(buf) THEN buf ELSE filled]
        ELSE IF n - (p + 12 + length) < 4
        THEN [kind |-> "raise", err |-> "Failed to read the end token.", buf |-> filled]
        ELSE [kind |-> "yield", buf |-> filled, length |-> length, at |-> p,
              pos |-> p + 12 + length + 4]

\* A reader that takes every short read for the end of the file.
ReadRecordsEndsOnShortRead(f, p, e, buf) ==
    IF p < e /\ ReadFrame(f, p, buf).kind = "yield" THEN ReadFrame(f, p, buf)
    ELSE [kind |-> "end"]

\* read_records resumed at file position p with end offset e.
ReadRecords(f, p, e, buf) ==
    IF p < e THEN ReadFrame(f, p, buf) ELSE [kind |-> "end"]

\* The record-index range of shard shard_idx of shard_count over num_records.
ShardStart(num_records, shard_idx, shard_count) ==
    (num_records * shard_idx) \div shard_count

\* A range of num_records // shard_count records from the shard's start.
ShardEndOfEqualRanges(num_records, shard_idx, shard_count) ==
    (num_records * shard_idx) \div shard_count + num_records \div shard_count

ShardEnd(num_records, shard_idx, shard_count) ==
    (num_records * (shard_idx + 1)) \div shard_count

\* np.loadtxt on the index path: a missing file raises.
LoadIndex(f) ==
    IF ~f.exists THEN [ok |-> FALSE, err |-> "FileNotFoundError"] ELSE LoadTxt(f.rows)

\* No error.
None == "None"

\* shard=None.
NoShard == <<>>

\* start_offset=None and end_offset=None; the offset when none is drawn.
NoOffset == 0 - 1

\* No call of tfrecord_iterator yet.
NoCall ==
    [called |-> FALSE, index_path |-> FALSE, shard |-> NoShard, compression_type |-> None]

\* compression_type: None, "gzip", and "zip" for every other value.
CompressionTypes == {None, "gzip", "zip"}

\* A reader that opens the file whatever the compression_type.
OpensAnyCompression(compression_type) == TRUE

\* Whether the first statement of tfrecord_iterator opens the file: it does
\* for "gzip" and for None, and raises ValueError for anything else.
OpensFile(compression_type) == compression_type \in {None, "gzip"}

\* The message of that ValueError.
CompressionError == "compression_type should be either 'gzip' or None"

VARIABLES
    file,        \* the bytes of the container file on disk
    written,     \* the serialized records given to write, in order
    writer,      \* "open" | "closed": the writer's handle
    damage,      \* what was done to the file after it was closed
    index_file,  \* the index file: whether it exists, and its lines
    index_failed,\* whether create_index printed its diagnostic
    args,        \* the arguments of the tfrecord_iterator call
    pc,          \* where the generator stands
    handle,      \* "unopened" | "open" | "closed": the reader's file handle
    pos,         \* file.tell()
    end_offset,  \* end_offset of the running read_records
    offset,      \* the offset drawn from the index (no shard), or NoOffset
    error,       \* the error the generator raised, or None
    buffers,     \* every bytearray datum_bytes was bound to; the last is current
    views,       \* the memoryviews yielded: buffer, length, frame offset
    out          \* what each yielded view held when it was yielded

readerVars ==
    <<file, written, writer, damage, index_file, index_failed, args, pc, handle,
      pos, end_offset, offset, error, buffers, views, out>>

\* The state of the shard partition (see below).
VARIABLES
    record_count,  \* len(index)
    shard_count,  \* shard[1]
    ranges        \* <<start_index, end_index>> of shards 0, 1, ... computed so far

shardVars == <<record_count, shard_count, ranges>>

\* The state of the sampler and of the data loader (see below).
VARIABLES
    sources,      \* the number of records each source's stream holds
    faulty,       \* the sources whose file is cut short after those records
    weights,      \* the ratios argument
    infinite,     \* the infinite argument
    spc,          \* where the sampler stands
    iterators,    \* the list iterators: the source and the position of each
    ratios,       \* the array ratios
    opened,       \* how many streams each source's factory has made
    sout,         \* the records yielded
    num_workers,  \* the data loader's num_workers
    worker,       \* the iteration of the dataset that is running (from 0)
    delivered     \* how many records the data loader has delivered

samplerVars ==
    <<sources, faulty, weights, infinite, spc, iterators, ratios, opened, sout,
      num_workers, worker, delivered>>

\* The state of shuffle_iterator (see below).
VARIABLES
    upstream,     \* the items the iterator argument gives, in order
    queue_size,   \* the queue_size argument
    shpc,         \* where the generator stands
    buffer,       \* the list buffer
    consumed,     \* how many items were taken from upstream
    warned,       \* whether warnings.warn was called
    shout         \* the items yielded

shuffleVars == <<upstream, queue_size, shpc, buffer, consumed, warned, shout>>

\* The state of one record written and read back decoded (see below).
VARIABLES
    datum,        \* the datum given to TFRecordWriter.write
    description,  \* the description given to example_loader
    dfile,        \* the bytes of the file written
    dpc,          \* "off" | "new" | "written" | "done"
    decoded,      \* what the pull on example_loader gave: a record or an error
    calls         \* the calls of process_feature the pull made, with results

decodeVars == <<datum, description, dfile, dpc, decoded, calls>>

\* The state of the legacy io_utils.tfrecord_iterator (see below).
VARIABLES
    lpc,          \* where the generator stands
    lpos,         \* file.tell()
    loffset,      \* the offset drawn from the index, or NoOffset
    lerror,       \* the error the generator raised, or None
    lout          \* the records yielded

legacyVars == <<lpc, lpos, loffset, lerror, lout>>

\* A checksum value given to the masking of masked_crc, and its result.
VARIABLES
    crc_value,    \* the 32 bits of a CRC32C value, or <<>>
    crc_masked    \* the four bytes masked_crc made of it, or <<>>

maskVars == <<crc_value, crc_masked>>

\* A second generator tfrecord_iterator(data_path) made on the same file:
\* where it stands, its file.tell(), its error, its bytearrays, the views it
\* yielded and what each held when it was yielded.
VARIABLE second

\* The iteration of a TFRecordDataset by a DataLoader: whether it has begun,
\* whether the dataset has an index_path, num_workers, and the generator each
\* worker's __iter__ made.
VARIABLE dataset

vars ==
    <<readerVars, shardVars, samplerVars, shuffleVars, decodeVars, legacyVars, maskVars,
      second, dataset>>

ReaderInit ==
    /\ file = <<>>
    /\ written = <<>>
    /\ writer = "open"
    /\ damage = [kind |-> "none"]
    /\ index_file = NoFile
    /\ index_failed = FALSE
    /\ args = NoCall
    /\ pc = "none"
    /\ handle = "unopened"
    /\ pos = 0
    /\ end_offset = 0
    /\ offset = NoOffset
    /\ error = None
    /\ buffers = << Tuple([i \in 1..DatumBytesLen |-> 0]) >>
    /\ views = <<>>
    /\ out = <<>>

\* TFRecordWriter.write(record).
Write(record) ==
    /\ writer = "open"
    /\ Len(written) < MaxRecords
    /\ file' = file \o Frame(record)
    /\ written' = Append(written, record)
    /\ UNCHANGED <<writer, damage, index_file, index_failed, args, pc, handle, pos,
                   end_offset, offset, error, buffers, views, out, shardVars, samplerVars, shuffleVars, decodeVars,
                   legacyVars, maskVars, second, dataset>>

\* TFRecordWriter.close().
Close ==
    /\ writer = "open"
    /\ writer' = "closed"
    /\ UNCHANGED <<file, written, damage, index_file, index_failed, args, pc, handle,
                   pos, end_offset, offset, error, buffers, views, out, shardVars,
                   samplerVars, shuffleVars, decodeVars, legacyVars, maskVars, second, dataset>>

\* create_index(tfrecord_file, index_file) on a single file.
CreateIndex ==
    /\ writer = "closed"
    /\ ~index_file.exists
    /\ ~args.called
    /\ LET r == IndexLines(file, 0)
       IN  /\ index_file' = [exists |-> TRUE, rows |-> r.lines]
           /\ index_failed' = r.failed
    /\ UNCHANGED <<file, written, writer, damage, args, pc, handle, pos, end_offset,
                   offset, error, buffers, views, out, shardVars, samplerVars, shuffleVars, decodeVars,
                   legacyVars, maskVars, second, dataset>>

\* The shards a caller may pass.
MaxShards == 3

Shards == { <<i, w>> \in (0..(MaxShards - 1)) \X (1..MaxShards) : i < w }

\* The index file rewritten in the one-column layout: of every line only the
\* offset is kept.
OffsetsOnly ==
    /\ index_file.exists
    /\ ~args.called
    /\ \A i \in 1..Len(index_file.rows) : Len(index_file.rows[i]) >= 2
    /\ index_file.rows # <<>>
    /\ index_file' = [index_file EXCEPT
                        !.rows = [i \in 1..Len(index_file.rows) |-> <<index_file.rows[i][1]>>]]
    /\ UNCHANGED <<file, written, writer, damage, index_failed, args, pc, handle, pos,
                   end_offset, offset, error, buffers, views, out, shardVars,
                   samplerVars, shuffleVars, decodeVars, legacyVars, maskVars, second, dataset>>

\* tfrecord_iterator(data_path, index_path, shard, compression_type): the
\* call makes the generator; no line of its body runs before the first pull.
Call(with_index, shard, compression_type) ==
    /\ writer = "closed"
    /\ ~args.called
    /\ args' = [called |-> TRUE, index_path |-> with_index, shard |-> shard,
                compression_type |-> compression_type]
    /\ pc' = "created"
    /\ UNCHANGED <<file, written, writer, damage, index_file, index_failed, handle,
                   pos, end_offset, offset, error, buffers, views, out, shardVars,
                   samplerVars, shuffleVars, decodeVars, legacyVars, maskVars, second, dataset>>

\* A setup that, without an index, gives the whole file to shard 0 only.
SetupOfShardsWithoutIndex(a, drawn) ==
    LET loaded == LoadIndex(index_file)
        num_records == Len(loaded.index)
        start_index == ShardStart(num_records, a.shard[1], a.shard[2])
        end_index == ShardEnd(num_records, a.shard[1], a.shard[2])
        plain ==
            IF ~a.index_path
            THEN [kind |-> "go", pos |-> 0,
                  end |-> IF a.shard = NoShard \/ a.shard[1] = 0 THEN Len(file) ELSE 0,
                  offset |-> NoOffset]
            ELSE IF ~loaded.ok
            THEN [kind |-> "raise", err |-> loaded.err]
            ELSE IF a.shard = NoShard
            THEN [kind |-> "go", pos |-> drawn, end |-> Len(file), offset |-> drawn]
            ELSE [kind |-> "go", pos |-> loaded.index[start_index + 1],
                  end |-> IF end_index < num_records THEN loaded.index[end_index + 1]
                          ELSE Len(file),
                  offset |-> NoOffset]
    IN  IF /\ a.compression_type = "gzip"
           /\ plain.kind = "go"
           /\ file # <<>>
           /\ (plain.pos > 0 \/ plain.end > 0)
        THEN [kind |-> "raise", err |-> "BadGzipFile"]
        ELSE plain

\* Where the first pull of a generator called with a enters the scan: the file is opened, the index loaded,
\* the offset drawn (drawn is the outcome of np.random.choice) or the shard's
\* byte range looked up.  Under "gzip" the file the writer made, which is not
\* compressed, fails at the first byte the scan asks of it (a seek beyond 0,
\* the size of the contents, or a read): BadGzipFile, unless it is empty.
SetupOf(a, drawn) ==
    LET loaded == LoadIndex(index_file)
        num_records == Len(loaded.index)
        start_index == ShardStart(num_records, a.shard[1], a.shard[2])
        end_index == ShardEnd(num_records, a.shard[1], a.shard[2])
        plain ==
            IF ~a.index_path
            THEN [kind |-> "go", pos |-> 0, end |-> Len(file), offset |-> NoOffset]
            ELSE IF ~loaded.ok
            THEN [kind |-> "raise", err |-> loaded.err]
            ELSE IF a.shard = NoShard
            THEN [kind |-> "go", pos |-> drawn, end |-> Len(file), offset |-> drawn]
            ELSE [kind |-> "go", pos |-> loaded.index[start_index + 1],
                  end |-> IF end_index < num_records THEN loaded.index[end_index + 1]
                          ELSE Len(file),
                  offset |-> NoOffset]
    IN  IF /\ a.compression_type = "gzip"
           /\ plain.kind = "go"
           /\ file # <<>>
           /\ (plain.pos > 0 \/ plain.end > 0)
        THEN [kind |-> "raise", err |-> "BadGzipFile"]
        ELSE plain

\* The first pull of the generator made by Call.
Setup(drawn) == SetupOf(args, drawn)

\* The offsets np.random.choice(index) can return.
DrawableOf(a) ==
    IF a.index_path /\ a.shard = NoShard /\ LoadIndex(index_file).ok
    THEN { LoadIndex(index_file).index[i] : i \in 1..Len(LoadIndex(index_file).index) }
    ELSE {0}

Drawable == DrawableOf(args)

\* The generator runs from (phase, p, e) to its next yield, raise or return.
Run(phase, p, e, off) ==
    LET buf == buffers[Len(buffers)]
        first == ReadRecords(file, p, e, buf)
        wraps == phase = "scan" /\ off # NoOffset
        r == IF first.kind = "end" /\ wraps THEN ReadRecords(file, 0, off, buf)
             ELSE first
        ph == IF first.kind = "end" /\ wraps THEN "wrap" ELSE phase
        e2 == IF first.kind = "end" /\ wraps THEN off ELSE e
        nbuffers == IF r.kind = "end" THEN buffers
                    ELSE IF Len(r.buf) # Len(buf) THEN Append(buffers, r.buf)
                    ELSE [buffers EXCEPT ![Len(buffers)] = r.buf]
    IN  /\ offset' = off
        /\ end_offset' = e2
        /\ buffers' = nbuffers
        /\ CASE r.kind = "yield" ->
                  /\ pc' = ph
                  /\ pos' = r.pos
                  /\ handle' = "open"
                  /\ error' = None
                  /\ views' = Append(views, [buf |-> Len(nbuffers), len |-> r.length,
                                             at |-> r.at])
                  /\ out' = Append(out, SubSeq(r.buf, 1, r.length))
             [] r.kind = "raise" ->
                  /\ pc' = "error"
                  /\ pos' = p
                  /\ handle' = "open"
                  /\ error' = r.err
                  /\ UNCHANGED <<views, out>>
             [] r.kind = "end" ->
                  /\ pc' = "done"
                  /\ pos' = IF first.kind = "end" /\ wraps THEN 0 ELSE p
                  /\ handle' = "closed"
                  /\ error' = None
                  /\ UNCHANGED <<views, out>>

\* next() on the generator.
Pull ==
    /\ pc \in {"created", "scan", "wrap"}
    /\ IF pc = "created" /\ ~OpensFile(args.compression_type)
       THEN /\ pc' = "error"
            /\ error' = CompressionError
            /\ UNCHANGED <<handle, pos, end_offset, offset, buffers, views, out>>
       ELSE IF pc = "created"
       THEN \E drawn \in Drawable :
              LET s == Setup(drawn)
              IN  IF s.kind = "raise"
                  THEN /\ pc' = "error"
                       /\ error' = s.err
                       /\ handle' = "open"
                       /\ UNCHANGED <<pos, end_offset, offset, buffers, views, out>>
                  ELSE Run("scan", s.pos, s.end, s.offset)
       ELSE Run(pc, pos, end_offset, offset)
    /\ UNCHANGED <<file, written, writer, damage, index_file, index_failed, args,
                   shardVars, samplerVars, shuffleVars, decodeVars, legacyVars, maskVars, second, dataset>>

\* The byte values a damaged byte may take.
CorruptValues == {0, 1, 255}

\* One byte of the closed file is altered before it is indexed or read.
Corrupt(i, v) ==
    /\ writer = "closed"
    /\ damage.kind = "none"
    /\ ~args.called
    /\ ~index_file.exists
    /\ i \in 1..Len(file)
    /\ v # file[i]
    /\ file' = [file EXCEPT ![i] = v]
    /\ damage' = [kind |-> "corrupt", at |-> i - 1]
    /\ UNCHANGED <<written, writer, index_file, index_failed, args, pc, handle, pos,
                   end_offset, offset, error, buffers, views, out, shardVars, samplerVars, shuffleVars, decodeVars,
                   legacyVars, maskVars, second, dataset>>

\* The closed file is cut to its first n bytes before it is indexed or read.
Truncate(n) ==
    /\ writer = "closed"
    /\ damage.kind = "none"
    /\ ~args.called
    /\ ~index_file.exists
    /\ n \in 0..(Len(file) - 1)
    /\ file' = SubSeq(file, 1, n)
    /\ damage' = [kind |-> "truncate", at |-> n]
    /\ UNCHANGED <<written, writer, index_file, index_failed, args, pc, handle, pos,
                   end_offset, offset, error, buffers, views, out, shardVars, samplerVars, shuffleVars, decodeVars,
                   legacyVars, maskVars, second, dataset>>

(***************************************************************************)
(* The shard partition, computed for every shard of a file.                *)
(***************************************************************************)
\* The most records the index of a sharded file lists, the most shards.
MaxIndexLen == 8

MaxShardCount == 6

ShardIdle ==
    /\ record_count = 0
    /\ shard_count = 0
    /\ ranges = <<>>

ShardInit ==
    /\ record_count \in 1..MaxIndexLen
    /\ shard_count \in 1..MaxShardCount
    /\ ranges = <<>>

(***************************************************************************)
(* iterator_utils.py: cycle and sample_iterators, and the data loader that *)
(* iterates a MultiTFRecordDataset.  A source is a factory of streams; the *)
(* stream of source s holds the records <<s, 1>> .. <<s, sources[s]>>.    *)
(***************************************************************************)
\* The most sources, records of a source, pulls of an infinite sampler, and
\* worker processes of the data loader.
MaxSources == 2

MaxSourceLen == 2

MaxPulls == 4

MaxWorkers == 2

\* The ratios a caller passes, by source (cut to the number of sources).
WeightVectors == { <<4, 1, 2, 3>>, <<1, 1, 1, 1>> }

RECURSIVE Gcd(_, _)
Gcd(a, b) == IF b = 0 THEN a ELSE Gcd(b, a % b)

\* The fraction n / d in lowest terms (d > 0).
Frac(n, d) == [n |-> n \div Gcd(n, d), d |-> d \div Gcd(n, d)]

FracAdd(x, y) == Frac(x.n * y.d + y.n * x.d, x.d * y.d)

\* x / y, for y # 0.
FracDiv(x, y) == Frac(x.n * y.d, x.d * y.n)

RECURSIVE FracSum(_)
\* ratios.sum()
FracSum(r) == IF r = <<>> THEN Frac(0, 1) ELSE FracAdd(r[1], FracSum(Tail(r)))

\* A sampler that leaves the ratios as they are.
NormalizeNot(r) == r

\* ratios / ratios.sum(), element by element; nothing to divide in an empty
\* array.
Normalize(r) == [i \in 1..Len(r) |-> FracDiv(r[i], FracSum(r))]

\* A sampler that removes the first source whichever one is exhausted.
DeleteFirst(seq, i) == SubSeq(seq, 2, Len(seq))

\* del seq[i] and np.delete(seq, i), with i from 1.
DeleteAt(seq, i) == SubSeq(seq, 1, i - 1) \o SubSeq(seq, i + 1, Len(seq))

\* next() on a stream of len records of which taken were taken.
StreamNext(taken, len) ==
    IF taken < len THEN [kind |-> "yield", pos |-> taken + 1]
    ELSE [kind |-> "StopIteration"]

\* next() on cycle(iterator_fn), whose stream was made `made` times and has
\* given taken records: an exhausted (or not yet made) stream is made anew
\* and the pull served from it; if the new stream is empty the loop of cycle
\* makes streams for ever.
CycleNext(taken, len, made) ==
    IF made > 0 /\ StreamNext(taken, len).kind = "yield"
    THEN [kind |-> "yield", pos |-> taken + 1, made |-> made]
    ELSE IF StreamNext(0, len).kind = "yield"
    THEN [kind |-> "yield", pos |-> 1, made |-> made + 1]
    ELSE [kind |-> "spin", pos |-> 0, made |-> made + 1]

SamplerIdle ==
    /\ sources = <<>>
    /\ faulty = {}
    /\ weights = <<>>
    /\ infinite = FALSE
    /\ spc = "off"
    /\ iterators = <<>>
    /\ ratios = <<>>
    /\ opened = <<>>
    /\ sout = <<>>
    /\ num_workers = 0
    /\ worker = 0
    /\ delivered = 0

\* sample_iterators(iterators, ratios, infinite) was called on count sources.
SamplerCalled(count) ==
    /\ sources \in [1..count -> 0..MaxSourceLen]
    /\ \E w \in WeightVectors : weights = SubSeq(w, 1, count)
    /\ spc = "new"
    /\ iterators = <<>>
    /\ ratios = <<>>
    /\ opened = [s \in 1..count |-> 0]
    /\ sout = <<>>
    /\ worker = 0
    /\ delivered = 0

SamplerInit ==
    /\ \E count \in 1..MaxSources : SamplerCalled(count)
    /\ faulty = {}
    /\ infinite \in BOOLEAN
    /\ num_workers = 0

\* The same over sources of which at least one is a file cut short: its
\* stream raises RuntimeError where an intact one would stop.
FaultyInit ==
    /\ \E count \in 1..MaxSources :
          /\ SamplerCalled(count)
          /\ faulty \in SUBSET (1..count) \ {{}}
    /\ infinite \in BOOLEAN
    /\ num_workers = 0

\* How many sources the sampler of the weights has, and the most records
\* one of them holds.
WeightedSources == 3

MaxWeightedLen == 1

\* sample_iterators called on WeightedSources short sources.
WeightedInit ==
    /\ SamplerCalled(WeightedSources)
    /\ \A s \in 1..WeightedSources : sources[s] <= MaxWeightedLen
    /\ faulty = {}
    /\ infinite \in BOOLEAN
    /\ num_workers = 0

\* A DataLoader over MultiTFRecordDataset(..., infinite=False) with two
\* splits, as in the tests.
LoaderInit ==
    /\ SamplerCalled(2)
    /\ \A s \in 1..2 : sources[s] >= 1
    /\ faulty = {}
    /\ infinite = FALSE
    /\ num_workers \in 0..MaxWorkers

\* The range of the next shard is computed (reader.py, the shard branch).
ComputeShard ==
    /\ Len(ranges) < shard_count
    /\ ranges' = Append(ranges, <<ShardStart(record_count, Len(ranges), shard_count),
                                  ShardEnd(record_count, Len(ranges), shard_count)>>)
    /\ UNCHANGED <<record_count, shard_count, readerVars, samplerVars, shuffleVars, decodeVars,
                   legacyVars, maskVars, second, dataset>>

\* The lists as the body of sample_iterators first sets them.
StartIterators == [s \in 1..Len(sources) |-> [src |-> s, pos |-> 0]]

StartRatios == Normalize([s \in 1..Len(weights) |-> Frac(weights[s], 1)])

\* One pass of the loop of sample_iterators (the lines before the loop too,
\* on the first pull): a source is drawn and pulled; it yields, or its
\* StopIteration removes it and its ratio and the loop goes on or ends.  Any
\* other exception of the source is not caught: it leaves the generator,
\* which is finished from then on.
Iterate(choice) ==
    LET its == IF spc = "new" THEN StartIterators ELSE iterators
        rat == IF spc = "new" THEN StartRatios ELSE ratios
        made == IF spc = "new" /\ ~infinite THEN [s \in 1..Len(sources) |-> 1]
                ELSE opened
        it == its[choice]
        r == IF it.src \in faulty /\ it.pos >= sources[it.src]
             THEN [kind |-> "RuntimeError"]
             ELSE IF infinite THEN CycleNext(it.pos, sources[it.src], made[it.src])
             ELSE StreamNext(it.pos, sources[it.src])
    IN  /\ spc \in {"new", "loop", "suspended"}
        /\ infinite => Len(sout) < MaxPulls
        /\ choice \in 1..Len(rat)
        /\ rat[choice].n > 0
        /\ CASE r.kind = "yield" ->
                  /\ spc' = "suspended"
                  /\ iterators' = [its EXCEPT ![choice].pos = r.pos]
                  /\ ratios' = rat
                  /\ opened' = IF infinite THEN [made EXCEPT ![it.src] = r.made] ELSE made
                  /\ sout' = Append(sout, <<it.src, r.pos>>)
                  /\ delivered' = delivered + 1
             [] r.kind = "StopIteration" ->
                  /\ iterators' = DeleteAt(its, choice)
                  /\ ratios' = Normalize(DeleteAt(rat, choice))
                  /\ spc' = IF DeleteAt(its, choice) = <<>> THEN "stopped" ELSE "loop"
                  /\ opened' = made
                  /\ UNCHANGED <<sout, delivered>>
             [] r.kind = "spin" ->
                  /\ spc' = "spinning"
                  /\ iterators' = [its EXCEPT ![choice].pos = r.pos]
                  /\ ratios' = rat
                  /\ opened' = [made EXCEPT ![it.src] = r.made]
                  /\ UNCHANGED <<sout, delivered>>
             [] r.kind = "RuntimeError" ->
                  /\ spc' = "raised"
                  /\ iterators' = its
                  /\ ratios' = rat
                  /\ opened' = made
                  /\ UNCHANGED <<sout, delivered>>
        /\ UNCHANGED <<sources, faulty, weights, infinite, num_workers, worker,
                       readerVars, shardVars, shuffleVars, decodeVars, legacyVars, maskVars, second, dataset>>

\* next() on the sampler after an exception left it: a finished generator
\* gives StopIteration and nothing else.
PullFinished ==
    /\ spc = "raised"
    /\ spc' = "finished"
    /\ UNCHANGED <<sources, faulty, weights, infinite, iterators, ratios, opened, sout,
                   num_workers, worker, delivered, readerVars, shardVars, shuffleVars,
                   decodeVars, legacyVars, maskVars, second, dataset>>

\* cycle over a factory of empty streams: the pull never returns.
Spin ==
    /\ spc = "spinning"
    /\ UNCHANGED vars

\* How often the data loader has the dataset iterated: once in the calling
\* process when num_workers is 0, else once in every worker process.
Iterations == IF num_workers = 0 THEN 1 ELSE num_workers

\* MultiTFRecordDataset.__iter__ in the next worker: a sampler of its own over
\* all the splits (the workers share nothing; they are run one after another).
NextWorker ==
    /\ spc = "stopped"
    /\ worker + 1 < Iterations
    /\ worker' = worker + 1
    /\ spc' = "new"
    /\ iterators' = <<>>
    /\ ratios' = <<>>
    /\ opened' = [s \in 1..Len(sources) |-> 0]
    /\ sout' = <<>>
    /\ UNCHANGED <<sources, faulty, weights, infinite, num_workers, delivered,
                   readerVars, shardVars, shuffleVars, decodeVars, legacyVars, maskVars, second, dataset>>

(***************************************************************************)
(* iterator_utils.py: shuffle_iterator.  The upstream iterator gives the   *)
(* items of the sequence upstream, in order, and then StopIteration.       *)
(***************************************************************************)
\* The longest upstream, the largest queue_size, and the items.
MaxInputLen == 3

MaxQueueSize == 3

Items == {1, 2}

\* The sequences over S of length n.
SeqsOfLen(S, n) == [1..n -> S]

ShuffleIdle ==
    /\ upstream = <<>>
    /\ queue_size = 0
    /\ shpc = "off"
    /\ buffer = <<>>
    /\ consumed = 0
    /\ warned = FALSE
    /\ shout = <<>>

\* shuffle_iterator(iterator, queue_size) was called; nothing of its body
\* has run.
ShuffleInit ==
    /\ \E n \in 0..MaxInputLen : upstream \in SeqsOfLen(Items, n)
    /\ queue_size \in 0..MaxQueueSize
    /\ shpc = "new"
    /\ buffer = <<>>
    /\ consumed = 0
    /\ warned = FALSE
    /\ shout = <<>>

\* A buffer filling that warns also when upstream gives exactly size items.
FillBufferWarnsWhenJustFull(input, size) ==
    [buffer |-> SubSeq(input, 1, Min(size, Len(input))),
     consumed |-> Min(size, Len(input)),
     warned |-> Len(input) <= size]

\* The lines before the loop: next(iterator) size times into the buffer; a
\* StopIteration ends the filling with a warning.
FillBuffer(input, size) ==
    [buffer |-> SubSeq(input, 1, Min(size, Len(input))),
     consumed |-> Min(size, Len(input)),
     warned |-> Len(input) < size]

\* A loop that puts the next upstream item at the end of the buffer and
\* leaves the slot as it is.
TakeSlotAppends(buf, index, input, taken) ==
    IF taken < Len(input)
    THEN [item |-> buf[index], buffer |-> Append(buf, input[taken + 1]),
          consumed |-> taken + 1]
    ELSE [item |-> buf[index], buffer |-> DeleteAt(buf, index), consumed |-> taken]

\* One pass of the loop on the slot index (from 1): the slot's item is
\* yielded and the slot refilled from upstream, or, upstream exhausted,
\* popped.
TakeSlot(buf, index, input, taken) ==
    IF taken < Len(input)
    THEN [item |-> buf[index], buffer |-> [buf EXCEPT ![index] = input[taken + 1]],
          consumed |-> taken + 1]
    ELSE [item |-> buf[index], buffer |-> DeleteAt(buf, index), consumed |-> taken]

\* next() on the generator: on the first pull the buffer is filled; then an
\* empty buffer ends the generator, else np.random.randint draws the slot.
ShufflePull(index) ==
    LET filled == IF shpc = "new" THEN FillBuffer(upstream, queue_size)
                  ELSE [buffer |-> buffer, consumed |-> consumed, warned |-> warned]
        slot == TakeSlot(filled.buffer, index, upstream, filled.consumed)
    IN  /\ shpc \in {"new", "suspended"}
        /\ warned' = filled.warned
        /\ IF filled.buffer = <<>>
           THEN /\ index = 1
                /\ shpc' = "stopped"
                /\ buffer' = filled.buffer
                /\ consumed' = filled.consumed
                /\ shout' = shout
           ELSE /\ index \in 1..Len(filled.buffer)
                /\ shpc' = "suspended"
                /\ buffer' = slot.buffer
                /\ consumed' = slot.consumed
                /\ shout' = Append(shout, slot.item)
        /\ UNCHANGED <<upstream, queue_size, readerVars, shardVars, samplerVars, decodeVars,
                   legacyVars, maskVars, second, dataset>>

(***************************************************************************)
(* example_pb2: the Example message and its protocol-buffer encoding.      *)
(* A Feature is [kind, value] with kind the list that is set, or "none";   *)
(* the map Features.feature is a sequence of <<key, Feature>> with no key  *)
(* twice.  A float is the sequence of its bits, least significant first.   *)
(***************************************************************************)
\* Concatenation of the sequences of a sequence.
RECURSIVE Flatten(_)
Flatten(ss) == IF ss = <<>> THEN <<>> ELSE ss[1] \o Flatten(Tail(ss))

\* The natural the 31 low bits of b stand for; a set bit above them makes
\* it a length beyond every file of the model.
LowValue(b) ==
    IF \E i \in 32..Len(b) : b[i] = 1 THEN HugeLength
    ELSE FromBits(SubSeq(b, 1, Min(31, Len(b))))

\* The 64-bit two's complement of an integer of magnitude below 2^31, and
\* back.
Int64Bits(n) ==
    LET m == IF n >= 0 THEN n ELSE (0 - n) - 1
        low == ToBits(m, 31)
    IN  Tuple([i \in 1..64 |-> IF n >= 0 THEN BitAt(low, i) ELSE 1 - BitAt(low, i)])

Int64Value(b) ==
    IF b[64] = 0 THEN LowValue(b)
    ELSE 0 - LowValue(Tuple([i \in 1..64 |-> 1 - b[i]])) - 1

\* The place of the highest set bit of b, 0 if none.
HighBit(b) ==
    IF \A i \in 1..Len(b) : b[i] = 0 THEN 0
    ELSE CHOOSE i \in 1..Len(b) : b[i] = 1 /\ \A j \in (i + 1)..Len(b) : b[j] = 0

\* The base-128 varint of a 64-bit value: 7 bits a byte, low group first,
\* bit 8 set on every byte but the last.
Varint(b) ==
    LET groups == IF HighBit(b) = 0 THEN 1 ELSE (HighBit(b) + 6) \div 7
    IN  Tuple([g \in 1..groups |->
            FromBits(Tuple([k \in 1..7 |-> BitAt(b, 7 * (g - 1) + k)]))
            + (IF g < groups THEN 128 ELSE 0)])

\* The varint that starts at place p of bytes b: its 64 bits and the place
\* after it.
ReadVarint(b, p) ==
    LET last == CHOOSE e \in p..Len(b) :
                    b[e] < 128 /\ \A j \in p..(e - 1) : b[j] >= 128
        bits == Flatten(Tuple([j \in 1..(last - p + 1) |-> ToBits(b[p + j - 1] % 128, 7)]))
    IN  [bits |-> Tuple([i \in 1..64 |-> BitAt(bits, i)]), next |-> last + 1]

\* A length-delimited field number num.
Delimited(num, payload) ==
    <<8 * num + 2>> \o Varint(Int64Bits(Len(payload))) \o payload

RECURSIVE ParseFields(_, _)
\* The length-delimited fields of a message from place p: <<number, payload>>
\* of each, in order.
ParseFields(b, p) ==
    IF p > Len(b) THEN <<>>
    ELSE LET len == ReadVarint(b, p + 1)
             size == LowValue(len.bits)
         IN  << <<b[p] \div 8, SubSeq(b, len.next, len.next + size - 1)>> >>
             \o ParseFields(b, len.next + size)

\* The payloads of the fields numbered num, in order.
FieldsOf(b, num) ==
    LET sel == SelectSeq(ParseFields(b, 1), LAMBDA f : f[1] = num)
    IN  Tuple([i \in 1..Len(sel) |-> sel[i][2]])

\* The double d (64 bits) as the nearest float (32 bits), ties to even: what
\* storing a Python float in a FloatList does.  For zero and for doubles in
\* the range of normal floats; beyond it the result is an infinity.
Float32(d) ==
    LET exponent == FromBits(SubSeq(d, 53, 63))
        kept == SubSeq(d, 30, 52)
        half == d[29] = 1
        sticky == \E i \in 1..28 : d[i] = 1
        up == half /\ (sticky \/ kept[1] = 1)
        word == kept \o ToBits(exponent - 1023 + 127, 8)
        rounded == IF up THEN BitAdd(word, <<1>>) ELSE word
        infinity == Tuple([i \in 1..31 |-> IF i <= 23 THEN 0 ELSE 1])
    IN  IF \A i \in 1..63 : d[i] = 0 THEN Tuple([i \in 1..31 |-> 0]) \o <<d[64]>>
        ELSE IF exponent - 1023 + 127 >= 255 THEN infinity \o <<d[64]>>
        ELSE Tuple([i \in 1..31 |-> BitAt(rounded, i)]) \o <<d[64]>>

\* BytesList, FloatList (packed) and Int64List (packed): field 1.
SerializeBytesList(v) == Flatten(Tuple([i \in 1..Len(v) |-> Delimited(1, v[i])]))

SerializeFloatList(v) ==
    IF v = <<>> THEN <<>>
    ELSE Delimited(1, Flatten(Tuple([i \in 1..Len(v) |-> PackI(v[i])])))

SerializeInt64List(v) ==
    IF v = <<>> THEN <<>>
    ELSE Delimited(1, Flatten(Tuple([i \in 1..Len(v) |-> Varint(Int64Bits(v[i]))])))

\* Feature: the oneof of bytes_list = 1, float_list = 2, int64_list = 3.
SerializeFeature(f) ==
    CASE f.kind = "bytes_list" -> Delimited(1, SerializeBytesList(f.value))
      [] f.kind = "float_list" -> Delimited(2, SerializeFloatList(f.value))
      [] f.kind = "int64_list" -> Delimited(3, SerializeInt64List(f.value))
      [] OTHER -> <<>>

\* Example.SerializeToString(): features = 1, holding the map feature = 1
\* whose entries are key = 1 and value = 2.
SerializeToString(features) ==
    Delimited(1, Flatten(Tuple([i \in 1..Len(features) |->
        Delimited(1, Delimited(1, features[i][1])
                     \o Delimited(2, SerializeFeature(features[i][2])))])))

RECURSIVE ReadVarints(_, _)
\* The values of the varints packed in b from place p.
ReadVarints(b, p) ==
    IF p > Len(b) THEN <<>>
    ELSE <<Int64Value(ReadVarint(b, p).bits)>> \o ReadVarints(b, ReadVarint(b, p).next)

ParseBytesList(b) == FieldsOf(b, 1)

ParseFloatList(b) ==
    LET packed == Flatten(FieldsOf(b, 1))
    IN  Tuple([i \in 1..(Len(packed) \div 4) |->
            Flatten(Tuple([k \in 1..4 |-> ToBits(packed[4 * (i - 1) + k], 8)]))])

ParseInt64List(b) == ReadVarints(Flatten(FieldsOf(b, 1)), 1)

\* The member of the oneof that came last is the one set.
ParseFeature(b) ==
    LET fs == SelectSeq(ParseFields(b, 1), LAMBDA f : f[1] \in {1, 2, 3})
        last == fs[Len(fs)]
    IN  IF fs = <<>> THEN [kind |-> "none", value |-> <<>>]
        ELSE CASE last[1] = 1 -> [kind |-> "bytes_list", value |-> ParseBytesList(last[2])]
               [] last[1] = 2 -> [kind |-> "float_list", value |-> ParseFloatList(last[2])]
               [] last[1] = 3 -> [kind |-> "int64_list", value |-> ParseInt64List(last[2])]

\* One entry of the map: its key and its Feature.
ParseEntry(b) ==
    LET keys == FieldsOf(b, 1)
        values == FieldsOf(b, 2)
    IN  << IF keys = <<>> THEN <<>> ELSE keys[Len(keys)],
           IF values = <<>> THEN [kind |-> "none", value |-> <<>>]
           ELSE ParseFeature(values[Len(values)]) >>

RECURSIVE PutEntries(_, _)
\* The map after the entries are put in order: a key met again takes the
\* later value and keeps its place.
PutEntries(map, entries) ==
    IF entries = <<>> THEN map
    ELSE LET e == entries[1]
             at == {i \in 1..Len(map) : map[i][1] = e[1]}
         IN  PutEntries(IF at = {} THEN Append(map, e)
                        ELSE [map EXCEPT ![CHOOSE i \in at : TRUE] = e],
                        Tail(entries))

\* Example.ParseFromString(record), then .features.feature.
ParseFromString(record) ==
    LET inner == Flatten(FieldsOf(record, 1))
        entries == FieldsOf(inner, 1)
    IN  PutEntries(<<>>, Tuple([i \in 1..Len(entries) |-> ParseEntry(entries[i])]))

(***************************************************************************)
(* writer.py: serialize_tf_example; reader.py: process_feature,            *)
(* extract_feature_dict and example_loader.  A datum is a sequence of      *)
(* <<key, [dtype, listed, value]>> (a dict in insertion order); value is   *)
(* the list given, or for a value that is no list the one value in a       *)
(* sequence of its own, with listed FALSE.                                 *)
(***************************************************************************)
\* serialize(value, dtype): a value that is no list is put in a list; the
\* list goes into the Feature member of its dtype (a FloatList keeps floats).
serialize(w) ==
    LET value == IF w.listed THEN w.value ELSE <<w.value[1]>>
    IN  CASE w.dtype = "byte" -> [kind |-> "bytes_list", value |-> value]
          [] w.dtype = "float" ->
                [kind |-> "float_list",
                 value |-> Tuple([i \in 1..Len(value) |-> Float32(value[i])])]
          [] w.dtype = "int" -> [kind |-> "int64_list", value |-> value]

serialize_tf_example(d) ==
    SerializeToString(Tuple([i \in 1..Len(d) |-> <<d[i][1], serialize(d[i][2])>>]))

\* typename_mapping of example_loader.
typename_mapping ==
    [t \in {"byte", "float", "int"} |->
        CASE t = "byte" -> "bytes_list" [] t = "float" -> "float_list"
          [] t = "int" -> "int64_list"]

\* A decoder that takes the last value of a bytes_list.
process_feature_last(feature, typename, mapping, key) ==
    IF feature.kind = "none" THEN [ok |-> FALSE, err |-> [type |-> "IndexError"]]
    ELSE IF typename # None /\ typename \notin DOMAIN mapping
    THEN [ok |-> FALSE, err |-> [type |-> "KeyError", key |-> typename]]
    ELSE IF typename # None /\ mapping[typename] # feature.kind
    THEN [ok |-> FALSE,
          err |-> [type |-> "TypeError", typename |-> typename, key |-> key,
                   should |-> CHOOSE k \in DOMAIN mapping : mapping[k] = feature.kind]]
    ELSE CASE feature.kind = "bytes_list" ->
                IF feature.value = <<>> THEN [ok |-> FALSE, err |-> [type |-> "IndexError"]]
                ELSE [ok |-> TRUE,
                      value |-> [dtype |-> "bytes", value |-> feature.value[Len(feature.value)]]]
           [] feature.kind = "float_list" ->
                [ok |-> TRUE, value |-> [dtype |-> "float32", value |-> feature.value]]
           [] feature.kind = "int64_list" ->
                [ok |-> TRUE, value |-> [dtype |-> "int64", value |-> feature.value]]

\* A decoder that does not compare the typename with the member set.
process_feature_unchecked(feature, typename, mapping, key) ==
    IF feature.kind = "none" THEN [ok |-> FALSE, err |-> [type |-> "IndexError"]]
    ELSE CASE feature.kind = "bytes_list" ->
                IF feature.value = <<>> THEN [ok |-> FALSE, err |-> [type |-> "IndexError"]]
                ELSE [ok |-> TRUE,
                      value |-> [dtype |-> "bytes", value |-> feature.value[1]]]
           [] feature.kind = "float_list" ->
                [ok |-> TRUE, value |-> [dtype |-> "float32", value |-> feature.value]]
           [] feature.kind = "int64_list" ->
                [ok |-> TRUE, value |-> [dtype |-> "int64", value |-> feature.value]]

\* process_feature: ListFields()[0] is the member that is set (none set: an
\* IndexError); a typename that disagrees with it is a TypeError naming the
\* typename, the key and the member's typename; a bytes_list gives its first
\* value (none: an IndexError), the other lists an array of all theirs.
process_feature(feature, typename, mapping, key) ==
    IF feature.kind = "none" THEN [ok |-> FALSE, err |-> [type |-> "IndexError"]]
    ELSE IF typename # None /\ typename \notin DOMAIN mapping
    THEN [ok |-> FALSE, err |-> [type |-> "KeyError", key |-> typename]]
    ELSE IF typename # None /\ mapping[typename] # feature.kind
    THEN [ok |-> FALSE,
          err |-> [type |-> "TypeError", typename |-> typename, key |-> key,
                   should |-> CHOOSE k \in DOMAIN mapping : mapping[k] = feature.kind]]
    ELSE CASE feature.kind = "bytes_list" ->
                IF feature.value = <<>> THEN [ok |-> FALSE, err |-> [type |-> "IndexError"]]
                ELSE [ok |-> TRUE,
                      value |-> [dtype |-> "bytes", value |-> feature.value[1]]]
           [] feature.kind = "float_list" ->
                [ok |-> TRUE, value |-> [dtype |-> "float32", value |-> feature.value]]
           [] feature.kind = "int64_list" ->
                [ok |-> TRUE, value |-> [dtype |-> "int64", value |-> feature.value]]

\* features[key] and list(features.keys()).
Lookup(features, key) ==
    LET at == {i \in 1..Len(features) : features[i][1] = key}
    IN  IF at = {} THEN [kind |-> "none", value |-> <<>>]
        ELSE features[CHOOSE i \in at : TRUE][2]

Keys(features) == Tuple([i \in 1..Len(features) |-> features[i][1]])

\* The dict the description becomes: every key of the record when it is None
\* or empty, dict.fromkeys of a list, a dict as it is.
Describe(desc, all_keys) ==
    IF desc.form = "None" \/ desc.items = <<>>
    THEN Tuple([i \in 1..Len(all_keys) |-> <<all_keys[i], None>>])
    ELSE IF desc.form = "list"
    THEN PutEntries(<<>>, Tuple([i \in 1..Len(desc.items) |-> <<desc.items[i], None>>]))
    ELSE desc.items

RECURSIVE ExtractLoop(_, _, _, _, _)
\* The loop of extract_feature_dict over the items left: a key the record
\* lacks is a KeyError naming it and all the record's keys; an error of
\* process_feature goes through; else the value is kept under the key.
ExtractLoop(items, features, mapping, processed, log) ==
    IF items = <<>> THEN [ok |-> TRUE, value |-> processed, calls |-> log]
    ELSE LET key == items[1][1]
             typename == items[1][2]
             feature == Lookup(features, key)
             r == process_feature(feature, typename, mapping, key)
             call == [key |-> key, typename |-> typename, kind |-> feature.kind,
                      result |-> r]
         IN  IF \A i \in 1..Len(features) : features[i][1] # key
             THEN [ok |-> FALSE,
                   err |-> [type |-> "KeyError", key |-> key, all_keys |-> Keys(features)],
                   calls |-> log]
             ELSE IF ~r.ok THEN [ok |-> FALSE, err |-> r.err, calls |-> Append(log, call)]
             ELSE ExtractLoop(Tail(items), features, mapping,
                              Append(processed, <<key, r.value>>), Append(log, call))

\* A decoder that takes every description for that of all the keys.
extract_all_keys(features, desc, mapping) ==
    ExtractLoop(Describe([form |-> "None", items |-> <<>>], Keys(features)),
                features, mapping, <<>>, <<>>)

\* extract_feature_dict on the Features of an Example.
extract_feature_dict(features, desc, mapping) ==
    ExtractLoop(Describe(desc, Keys(features)), features, mapping, <<>>, <<>>)

\* The first pull on example_loader(path, None, description): the first
\* record of tfrecord_iterator is parsed and its features extracted.
example_loader(f, desc) ==
    LET r == ReadRecords(f, 0, Len(f), Tuple([i \in 1..DatumBytesLen |-> 0]))
    IN  IF r.kind = "end"
        THEN [ok |-> FALSE, err |-> [type |-> "StopIteration"], calls |-> <<>>]
        ELSE IF r.kind = "raise"
        THEN [ok |-> FALSE, err |-> [type |-> "RuntimeError", message |-> r.err],
              calls |-> <<>>]
        ELSE extract_feature_dict(ParseFromString(SubSeq(r.buf, 1, r.length)), desc,
                                  typename_mapping)

\* The keys of the model: "a" and "b" are written, "c" never is.
KeyA == <<97>>

KeyB == <<98>>

KeyC == <<99>>

\* The doubles 1.23, 1.0 and 1.9999999999 (the last rounds up to 2.0).
Double123 == ToBits(18350, 16) \o ToBits(31457, 16) \o ToBits(44564, 16) \o ToBits(16371, 16)

Double1 == ToBits(0, 48) \o ToBits(16368, 16)

DoubleNear2 == ToBits(8392, 16) \o ToBits(65529, 16) \o ToBits(65535, 16) \o ToBits(16383, 16)

\* What a key of the datum holds: (value, dtype).
WrittenValues ==
    << [dtype |-> "int", listed |-> FALSE, value |-> <<123>>],
       [dtype |-> "int", listed |-> TRUE, value |-> <<0 - 1, 300>>],
       [dtype |-> "int", listed |-> TRUE, value |-> <<>>],
       [dtype |-> "float", listed |-> FALSE, value |-> <<Double123>>],
       [dtype |-> "float", listed |-> TRUE, value |-> <<Double1, DoubleNear2>>],
       [dtype |-> "byte", listed |-> FALSE, value |-> << <<116>> >>],
       [dtype |-> "byte", listed |-> TRUE, value |-> << <<116, 49>>, <<116, 50>> >>],
       [dtype |-> "byte", listed |-> TRUE, value |-> <<>>] >>

\* The datum whose key "a" holds WrittenValues[i] and whose key "b" holds
\* WrittenValues[j]; 0 for a key the datum lacks.
Datum(i, j) ==
    (IF i = 0 THEN <<>> ELSE << <<KeyA, WrittenValues[i]>> >>)
    \o (IF j = 0 THEN <<>> ELSE << <<KeyB, WrittenValues[j]>> >>)

\* The descriptions: None, empty, lists of keys, dicts of key and typename.
Descriptions ==
    << [form |-> "None", items |-> <<>>],
       [form |-> "list", items |-> <<>>],
       [form |-> "dict", items |-> <<>>],
       [form |-> "list", items |-> <<KeyA>>],
       [form |-> "list", items |-> <<KeyC>>],
       [form |-> "list", items |-> <<KeyB, KeyA>>],
       [form |-> "list", items |-> <<KeyA, KeyC>>],
       [form |-> "dict", items |-> << <<KeyA, "byte">> >>],
       [form |-> "dict", items |-> << <<KeyA, "float">> >>],
       [form |-> "dict", items |-> << <<KeyA, "int">> >>],
       [form |-> "dict", items |-> << <<KeyA, "float">>, <<KeyC, "int">> >>],
       [form |-> "dict", items |-> << <<KeyA, "int">>, <<KeyC, "int">> >>],
       [form |-> "dict", items |-> << <<KeyC, "int">>, <<KeyA, "float">> >>],
       [form |-> "dict", items |-> << <<KeyB, "byte">>, <<KeyA, "int">> >>] >>

NotDecoded == [ok |-> FALSE, err |-> [type |-> "None"]]

DecodeIdle ==
    /\ datum = <<>>
    /\ description = Descriptions[1]
    /\ dfile = <<>>
    /\ dpc = "off"
    /\ decoded = NotDecoded
    /\ calls = <<>>

DecodeInit ==
    /\ \E i, j \in 0..Len(WrittenValues) : datum = Datum(i, j)
    /\ \E n \in 1..Len(Descriptions) : description = Descriptions[n]
    /\ dfile = <<>>
    /\ dpc = "new"
    /\ decoded = NotDecoded
    /\ calls = <<>>

\* TFRecordWriter(path).write(datum), then close().
WriteExample ==
    /\ dpc = "new"
    /\ dfile' = Frame(serialize_tf_example(datum))
    /\ dpc' = "written"
    /\ UNCHANGED <<datum, description, decoded, calls, readerVars, shardVars,
                   samplerVars, shuffleVars, legacyVars, maskVars, second, dataset>>

\* next(example_loader(path, None, description)).
LoadExample ==
    LET r == example_loader(dfile, description)
    IN  /\ dpc = "written"
        /\ dpc' = "done"
        /\ decoded' = IF r.ok THEN [ok |-> TRUE, value |-> r.value]
                      ELSE [ok |-> FALSE, err |-> r.err]
        /\ calls' = r.calls
        /\ UNCHANGED <<datum, description, dfile, readerVars, shardVars, samplerVars,
                       shuffleVars, legacyVars, maskVars, second, dataset>>

(***************************************************************************)
(* io_utils.py: the legacy tfrecord_iterator(data_path, index_path), read  *)
(* with the index create_index made.                                       *)
(***************************************************************************)
\* read_record at file position p: None on any short read, and on a record
\* longer than datum_bytes (zfill returns a new bytearray that is dropped,
\* so the view stays as long as the buffer and readinto gives fewer bytes
\* than length); else the record and the position after its frame.
LegacyReadRecord(f, p) ==
    LET n == Len(f)
        length == UnpackSignedQ(SubSeq(f, p + 1, p + 8))
    IN  IF n - p < 8 \/ n - (p + 8) < 4 THEN [kind |-> "None"]
        ELSE IF length < 0 \/ length > DatumBytesLen THEN [kind |-> "None"]
        ELSE IF n - (p + 12) < length \/ n - (p + 12 + length) < 4 THEN [kind |-> "None"]
        ELSE [kind |-> "datum", record |-> SubSeq(f, p + 13, p + 12 + length),
              pos |-> p + 12 + length + 4]

\* What np.random.choice(index) can give after lines 59-61: the first
\* column of a table of two lines or more; every number of a single line;
\* for a single number v the numbers below it.  An index without a line, or
\* the single number 0, is a ValueError, as is a ragged file.
LegacyOffsets(rows) ==
    IF \E i \in 1..Len(rows) : Len(rows[i]) # Len(rows[1])
    THEN [ok |-> FALSE, err |-> "ValueError", offsets |-> {}]
    ELSE IF rows = <<>> THEN [ok |-> FALSE, err |-> "ValueError", offsets |-> {}]
    ELSE IF Len(rows) = 1 /\ Len(rows[1]) = 1
    THEN IF ParseInt(rows[1][1]) = 0
         THEN [ok |-> FALSE, err |-> "ValueError", offsets |-> {}]
         ELSE [ok |-> TRUE, err |-> None, offsets |-> 0..(ParseInt(rows[1][1]) - 1)]
    ELSE IF Len(rows) = 1
    THEN [ok |-> TRUE, err |-> None,
          offsets |-> { ParseInt(rows[1][j]) : j \in 1..Len(rows[1]) }]
    ELSE [ok |-> TRUE, err |-> None,
          offsets |-> { ParseInt(rows[i][1]) : i \in 1..Len(rows) }]

LegacyIdle ==
    /\ lpc = "none"
    /\ lpos = 0
    /\ loffset = NoOffset
    /\ lerror = None
    /\ lout = <<>>

\* tfrecord_iterator(data_path, index_path): the call makes the generator.
LegacyCall ==
    /\ writer = "closed"
    /\ index_file.exists
    /\ lpc = "none"
    /\ lpc' = "created"
    /\ UNCHANGED <<lpos, loffset, lerror, lout, readerVars, shardVars, samplerVars,
                   shuffleVars, decodeVars, maskVars, second, dataset>>

\* The generator runs on in loop phase (the loop from the offset, or the
\* loop from 0) at position p: a record is yielded, or a None ends the loop
\* and the next loop or the end follows.
LegacyRun(phase, p, off) ==
    LET first == LegacyReadRecord(file, p)
        wraps == phase = "forward" /\ first.kind = "None"
        r == IF wraps THEN LegacyReadRecord(file, 0) ELSE first
    IN  /\ loffset' = off
        /\ lerror' = None
        /\ IF r.kind = "datum"
           THEN /\ lpc' = IF wraps THEN "wrapped" ELSE phase
                /\ lpos' = r.pos
                /\ lout' = Append(lout, r.record)
           ELSE /\ lpc' = "done"
                /\ lpos' = IF wraps THEN 0 ELSE p
                /\ lout' = lout

\* next() on the generator.  After a yield of the loop from 0 the loop ends
\* once file.tell() >= offset.
LegacyPull ==
    /\ lpc \in {"created", "forward", "wrapped"}
    /\ CASE lpc = "created" ->
              LET loaded == LegacyOffsets(index_file.rows)
              IN  IF ~loaded.ok
                  THEN /\ lpc' = "error"
                       /\ lerror' = loaded.err
                       /\ UNCHANGED <<lpos, loffset, lout>>
                  ELSE \E drawn \in loaded.offsets : LegacyRun("forward", drawn, drawn)
         [] lpc = "forward" -> LegacyRun("forward", lpos, loffset)
         [] lpc = "wrapped" ->
              IF lpos >= loffset
              THEN /\ lpc' = "done"
                   /\ UNCHANGED <<lpos, loffset, lerror, lout>>
              ELSE LegacyRun("wrapped", lpos, loffset)
    /\ UNCHANGED <<readerVars, shardVars, samplerVars, shuffleVars, decodeVars, maskVars, second, dataset>>

\* No checksum value is given.
MaskIdle == crc_value = <<>> /\ crc_masked = <<>>

\* The halves of the checksum values given: 0x0000, 0x5555, 0xAAAA, 0xFFFF.
CrcHalf(a) == ToBits((a * 21845) % 65536, 16)

\* A 32-bit checksum value is given.
MaskInit ==
    /\ crc_value \in { CrcHalf(a) \o CrcHalf(b) : a, b \in 0..MaxCrcHalf }
    /\ crc_masked = <<>>

\* The masking of masked_crc runs on the value.
MaskedCrc ==
    /\ crc_value # <<>>
    /\ crc_masked = <<>>
    /\ crc_masked' = masked_bytes(crc_value)
    /\ UNCHANGED <<crc_value, readerVars, shardVars, samplerVars, shuffleVars, decodeVars,
                   legacyVars, second, dataset>>

\* No DataLoader iterates a dataset.
DatasetIdle ==
    dataset = [iterated |-> FALSE, index_path |-> FALSE, num_workers |-> 0, its |-> <<>>]

\* The arguments TFRecordDataset.__iter__ gives the reader in worker w (from
\* 1) of num_workers, or in the main process when there are no workers:
\* shard = (worker_info.id, worker_info.num_workers), or None.
WorkerArgs(w) ==
    [called |-> TRUE, index_path |-> dataset.index_path,
     shard |-> IF dataset.num_workers = 0 THEN NoShard ELSE <<w - 1, dataset.num_workers>>,
     compression_type |-> None]

\* A generator no line of which has run.
NewGenerator ==
    [pc |-> "created", pos |-> 0, end_offset |-> 0, offset |-> NoOffset, error |-> None,
     buf |-> Tuple([i \in 1..DatumBytesLen |-> 0]), out |-> <<>>]

\* iter() on a DataLoader over TFRecordDataset(data_path, index_path) with
\* num_workers workers: every worker calls __iter__ on its copy of the
\* dataset; with no worker the main process does.
DataLoaderIter(with_index, workers) ==
    /\ writer = "closed"
    /\ ~dataset.iterated
    /\ with_index => index_file.exists
    /\ dataset' = [iterated |-> TRUE, index_path |-> with_index, num_workers |-> workers,
                   its |-> [w \in 1..(IF workers = 0 THEN 1 ELSE workers) |->
                              NewGenerator]]
    /\ UNCHANGED <<readerVars, shardVars, samplerVars, shuffleVars, decodeVars,
                   legacyVars, maskVars, second>>

\* The generator g resumed in (phase, p, e, off): as Run, on its own state.
Resume(g, phase, p, e, off) ==
    LET first == ReadRecords(file, p, e, g.buf)
        wraps == phase = "scan" /\ off # NoOffset
        r == IF first.kind = "end" /\ wraps THEN ReadRecords(file, 0, off, g.buf)
             ELSE first
        ph == IF first.kind = "end" /\ wraps THEN "wrap" ELSE phase
        e2 == IF first.kind = "end" /\ wraps THEN off ELSE e
    IN  CASE r.kind = "yield" ->
               [pc |-> ph, pos |-> r.pos, end_offset |-> e2, offset |-> off,
                error |-> None, buf |-> r.buf,
                out |-> Append(g.out, SubSeq(r.buf, 1, r.length))]
          [] r.kind = "raise" ->
               [pc |-> "error", pos |-> p, end_offset |-> e2, offset |-> off,
                error |-> r.err, buf |-> r.buf, out |-> g.out]
          [] r.kind = "end" ->
               [pc |-> "done", pos |-> IF first.kind = "end" /\ wraps THEN 0 ELSE p,
                end_offset |-> e2, offset |-> off, error |-> None, buf |-> g.buf,
                out |-> g.out]

\* next() on the generator of worker w; the records pass through the
\* decoding and the identity transform one by one.
WorkerPull(w) ==
    /\ dataset.iterated
    /\ w \in 1..Len(dataset.its)
    /\ dataset.its[w].pc \in {"created", "scan", "wrap"}
    /\ LET g == dataset.its[w]
       IN  IF g.pc = "created"
           THEN \E drawn \in DrawableOf(WorkerArgs(w)) :
                  LET s == SetupOf(WorkerArgs(w), drawn)
                  IN  dataset' =
                        [dataset EXCEPT !.its[w] =
                           IF s.kind = "raise"
                           THEN [g EXCEPT !.pc = "error", !.error = s.err]
                           ELSE Resume(g, "scan", s.pos, s.end, s.offset)]
           ELSE dataset' =
                  [dataset EXCEPT !.its[w] = Resume(g, g.pc, g.pos, g.end_offset, g.offset)]
    /\ UNCHANGED <<readerVars, shardVars, samplerVars, shuffleVars, decodeVars,
                   legacyVars, maskVars, second>>

\* No second generator is made.
SecondIdle ==
    second = [pc |-> "none", pos |-> 0, error |-> None,
              buffers |-> << Tuple([i \in 1..DatumBytesLen |-> 0]) >>,
              views |-> <<>>, out |-> <<>>]

\* A second call tfrecord_iterator(data_path) on the same file: the call
\* makes a generator of its own, whose datum_bytes is a bytearray of its own.
SecondCall ==
    /\ writer = "closed"
    /\ second.pc = "none"
    /\ second' = [second EXCEPT !.pc = "created"]
    /\ UNCHANGED <<readerVars, shardVars, samplerVars, shuffleVars, decodeVars,
                   legacyVars, maskVars, dataset>>

\* next() on the second generator, which reads the file from offset 0 to
\* its end with its own datum_bytes.
SecondPull ==
    /\ second.pc \in {"created", "scan"}
    /\ LET buf == second.buffers[Len(second.buffers)]
           p == IF second.pc = "created" THEN 0 ELSE second.pos
           r == ReadRecords(file, p, Len(file), buf)
           nbuffers == IF r.kind = "end" THEN second.buffers
                       ELSE IF Len(r.buf) # Len(buf) THEN Append(second.buffers, r.buf)
                       ELSE [second.buffers EXCEPT ![Len(second.buffers)] = r.buf]
       IN  second' =
             CASE r.kind = "yield" ->
                    [pc |-> "scan", pos |-> r.pos, error |-> None, buffers |-> nbuffers,
                     views |-> Append(second.views,
                                      [buf |-> Len(nbuffers), len |-> r.length, at |-> r.at]),
                     out |-> Append(second.out, SubSeq(r.buf, 1, r.length))]
               [] r.kind = "raise" ->
                    [second EXCEPT !.pc = "error", !.pos = p, !.error = r.err,
                                   !.buffers = nbuffers]
               [] r.kind = "end" ->
                    [second EXCEPT !.pc = "done", !.pos = p]
    /\ UNCHANGED <<readerVars, shardVars, samplerVars, shuffleVars, decodeVars,
                   legacyVars, maskVars, dataset>>

Init == ReaderInit /\ ShardIdle /\ SamplerIdle /\ ShuffleIdle /\ DecodeIdle /\ LegacyIdle /\ MaskIdle
    /\ SecondIdle /\ DatasetIdle

\* The masking on a given checksum value, and a writer that frames records.
MaskNext ==
    \/ MaskedCrc
    \/ \E record \in Payloads : Write(record)
    \/ Close

MaskSpecInit ==
    ReaderInit /\ ShardIdle /\ SamplerIdle /\ ShuffleIdle /\ DecodeIdle /\ LegacyIdle /\ MaskInit
    /\ SecondIdle /\ DatasetIdle

SpecMask == MaskSpecInit /\ [][MaskNext]_vars

\* Two generators read the same file, each from offset 0 without an index.
BuffersNext ==
    \/ \E record \in Payloads : Write(record)
    \/ Close
    \/ Call(FALSE, NoShard, None)
    \/ Pull
    \/ SecondCall
    \/ SecondPull

SpecBuffers == Init /\ [][BuffersNext]_vars

\* A DataLoader with workers over a TFRecordDataset, with an index or not.
DatasetNext ==
    \/ \E record \in Payloads : Write(record)
    \/ Close
    \/ CreateIndex
    \/ \E with_index \in BOOLEAN, workers \in 0..MaxDatasetWorkers :
          DataLoaderIter(with_index, workers)
    \/ \E w \in 1..MaxDatasetWorkers : WorkerPull(w)

SpecDataset == Init /\ [][DatasetNext]_vars

\* Writing, indexing and reading a file nobody touches.
Next ==
    \/ \E record \in Payloads : Write(record)
    \/ Close
    \/ CreateIndex
    \/ \E with_index \in BOOLEAN, shard \in Shards \cup {NoShard} :
          Call(with_index, shard, None)
    \/ Pull

Spec == Init /\ [][Next]_vars

\* The same with a file that is damaged between its writing and its reading,
\* read without an index.
DamagedNext ==
    \/ \E record \in Payloads : Write(record)
    \/ Close
    \/ \E i \in 1..(MaxRecords * 18), v \in CorruptValues : Corrupt(i, v)
    \/ \E n \in 0..(MaxRecords * 18) : Truncate(n)
    \/ Call(FALSE, NoShard, None)
    \/ Pull

SpecDamaged == Init /\ [][DamagedNext]_vars

\* The shard ranges of a file of record_count records split shard_count ways.
ShardSpecInit == ReaderInit /\ ShardInit /\ SamplerIdle /\ ShuffleIdle /\ DecodeIdle /\ LegacyIdle /\ MaskIdle
    /\ SecondIdle /\ DatasetIdle

SpecShard == ShardSpecInit /\ [][ComputeShard]_vars

\* sample_iterators pulled by one consumer.
SamplerNext ==
    \/ \E choice \in 1..MaxSources : Iterate(choice)
    \/ Spin

SamplerSpecInit == ReaderInit /\ ShardIdle /\ SamplerInit /\ ShuffleIdle /\ DecodeIdle /\ LegacyIdle /\ MaskIdle
    /\ SecondIdle /\ DatasetIdle

SpecSampler == SamplerSpecInit /\ [][SamplerNext]_vars

\* A finite MultiTFRecordDataset iterated by a data loader.
LoaderNext ==
    \/ \E choice \in 1..MaxSources : Iterate(choice)
    \/ NextWorker

LoaderSpecInit == ReaderInit /\ ShardIdle /\ LoaderInit /\ ShuffleIdle /\ DecodeIdle /\ LegacyIdle /\ MaskIdle
    /\ SecondIdle /\ DatasetIdle

SpecLoader == LoaderSpecInit /\ [][LoaderNext]_vars

\* sample_iterators over sources of which some are cut short.
FaultyNext ==
    \/ \E choice \in 1..MaxSources : Iterate(choice)
    \/ Spin
    \/ PullFinished

FaultySpecInit == ReaderInit /\ ShardIdle /\ FaultyInit /\ ShuffleIdle /\ DecodeIdle /\ LegacyIdle /\ MaskIdle
    /\ SecondIdle /\ DatasetIdle

SpecFaulty == FaultySpecInit /\ [][FaultyNext]_vars

\* sample_iterators over three sources, pulled by one consumer.
WeightedNext ==
    \/ \E choice \in 1..WeightedSources : Iterate(choice)
    \/ Spin

WeightedSpecInit == ReaderInit /\ ShardIdle /\ WeightedInit /\ ShuffleIdle /\ DecodeIdle /\ LegacyIdle /\ MaskIdle
    /\ SecondIdle /\ DatasetIdle

SpecWeighted == WeightedSpecInit /\ [][WeightedNext]_vars

\* shuffle_iterator pulled until it stops.
ShuffleNext == \E index \in 1..MaxQueueSize : ShufflePull(index)

ShuffleSpecInit == ReaderInit /\ ShardIdle /\ SamplerIdle /\ ShuffleInit /\ DecodeIdle /\ LegacyIdle /\ MaskIdle
    /\ SecondIdle /\ DatasetIdle

SpecShuffle == ShuffleSpecInit /\ [][ShuffleNext]_vars

\* create_index run on a file that was cut short.
DamagedIndexNext ==
    \/ \E record \in Payloads : Write(record)
    \/ Close
    \/ \E n \in 0..(MaxRecords * 18) : Truncate(n)
    \/ CreateIndex

SpecDamagedIndex == Init /\ [][DamagedIndexNext]_vars

\* Writing, indexing and reading with the legacy iterator.
LegacyNext ==
    \/ \E record \in Payloads : Write(record)
    \/ Close
    \/ CreateIndex
    \/ LegacyCall
    \/ LegacyPull

SpecLegacy == Init /\ [][LegacyNext]_vars

\* Writing, indexing and reading under every compression_type.
CompressionNext ==
    \/ \E record \in Payloads : Write(record)
    \/ Close
    \/ CreateIndex
    \/ \E with_index \in BOOLEAN, shard \in Shards \cup {NoShard},
          compression_type \in CompressionTypes :
            Call(with_index, shard, compression_type)
    \/ Pull

SpecCompression == Init /\ [][CompressionNext]_vars

\* Writing, indexing and reading with an index of either layout.
LayoutNext ==
    \/ \E record \in Payloads : Write(record)
    \/ Close
    \/ CreateIndex
    \/ OffsetsOnly
    \/ \E shard \in Shards \cup {NoShard} : Call(TRUE, shard, None)
    \/ Pull

SpecLayout == Init /\ [][LayoutNext]_vars

\* One datum written and read back through example_loader.
DecodeNext == WriteExample \/ LoadExample

DecodeSpecInit == ReaderInit /\ ShardIdle /\ SamplerIdle /\ ShuffleIdle /\ DecodeInit /\ LegacyIdle /\ MaskIdle
    /\ SecondIdle /\ DatasetIdle

SpecDecode == DecodeSpecInit /\ [][DecodeNext]_vars

(***************************************************************************)
(* What the claims speak of.                                               *)
(***************************************************************************)
\* Whether a is a prefix of b.
IsPrefix(a, b) == Len(a) <= Len(b) /\ a = SubSeq(b, 1, Len(a))

\* The length of the frame of a record of n bytes: 8 + 4 + n + 4.
FrameLen(n) == 8 + 4 + n + 4

RECURSIVE FrameStart(_)
\* The offset at which the k-th frame written starts (k from 1; k = number of
\* records + 1 gives the length of the intact file).
FrameStart(k) ==
    IF k = 1 THEN 0 ELSE FrameStart(k - 1) + FrameLen(Len(written[k - 1]))

\* The records written from position a + 1 to position b.
Records(a, b) == SubSeq(written, a + 1, b)

Intact == damage.kind = "none"

\* The place (from 0) among the records written of the record whose frame
\* starts at byte offset o, or the number of records when none does.
RecordAt(o) ==
    IF \E k \in 1..Len(written) : FrameStart(k) = o
    THEN (CHOOSE k \in 1..Len(written) : FrameStart(k) = o) - 1
    ELSE Len(written)

\* The file was read from offset 0 without an index.
Sequential == args.called /\ ~args.index_path

\* C1: the records written to a fresh file that is then closed are yielded by
\* tfrecord_iterator without an index in write order, each frame once, each
\* payload byte-identical to the serialized record when it is yielded, and the
\* iteration then ends without an error.
C1_SequentialReadYieldsWrittenRecords ==
    (Sequential /\ Intact) =>
        /\ pc # "error"
        /\ error = None
        /\ IsPrefix(out, written)
        /\ \A k \in 1..Len(views) :
              /\ views[k].at = FrameStart(k)
              /\ views[k].len = Len(written[k])
        /\ (pc = "done" => out = written /\ handle = "closed")
        /\ (Len(out) = Len(written) /\ pc # "created" => pc \in {"scan", "done"})
        /\ (pc = "scan" => pos = FrameStart(Len(out) + 1))

\* C1 happens: a file of at least two different records, one of them longer
\* than the scratch buffer, was read to its end.
C1_Witness ==
    /\ Sequential /\ Intact /\ pc = "done"
    /\ Len(out) >= 2 /\ out = written
    /\ \E j, k \in 1..Len(out) : out[j] # out[k]
    /\ Len(buffers) > 1

\* Whether the two checksums stored in the frame at offset o of the file are
\* the masked checksums of its length field and of its payload of n bytes.
ChecksumsValid(o, n) ==
    /\ SubSeq(file, o + 9, o + 12) = masked_crc(SubSeq(file, o + 1, o + 8))
    /\ SubSeq(file, o + 13 + n, o + 16 + n) = masked_crc(SubSeq(file, o + 13, o + 12 + n))

\* C2: a payload is yielded only from a frame whose two checksums validate; a
\* frame with an altered byte is not yielded.
C2_ChecksumsValidatedBeforeYield ==
    \A k \in 1..Len(views) : ChecksumsValid(views[k].at, views[k].len)

\* The file was cut inside its k-th frame, at or after the end of that
\* frame's 8-byte length field.
CutInsideFrame(k) ==
    /\ damage.kind = "truncate"
    /\ k \in 1..Len(written)
    /\ FrameStart(k) + 8 <= damage.at
    /\ damage.at < FrameStart(k + 1)

\* C3: when the file ends inside a frame after that frame's length field, the
\* reader never ends as at a clean end of file; it yields the complete frames
\* before the cut, nothing of the cut frame, and the pull that reaches the cut
\* frame raises.
C3_TruncatedFrameRaises ==
    \A k \in 1..Len(written) :
        (Sequential /\ CutInsideFrame(k)) =>
            /\ pc # "done"
            /\ IsPrefix(out, Records(0, k - 1))
            /\ \A j \in 1..Len(views) : views[j].at + FrameLen(views[j].len) <= Len(file)
            /\ (pc = "error" => out = Records(0, k - 1) /\ error # None)
            /\ (Len(out) = k - 1 /\ pc # "created" => pc \in {"scan", "error"})

\* C3 happens: the cut is in the payload checksum of the last of at least two
\* frames, and the pull after the complete frames has raised.
C3_Witness ==
    /\ Sequential
    /\ Len(written) >= 2
    /\ CutInsideFrame(Len(written))
    /\ damage.at >= FrameStart(Len(written)) + 12 + Len(written[Len(written)])
    /\ pc = "error"
    /\ Len(out) = Len(written) - 1

\* The index in use is the one create_index made of the intact file.
Indexed == args.called /\ args.index_path /\ index_file.exists /\ Intact

\* C5: with the index of a well-formed file of N >= 1 records, shard (i, W)
\* yields exactly the records at positions floor(N*i/W) .. floor(N*(i+1)/W)-1,
\* in file order, once each, and ends.
C5_ShardYieldsItsRange ==
    (Indexed /\ args.shard # NoShard /\ Len(written) >= 1) =>
        LET lo == ShardStart(Len(written), args.shard[1], args.shard[2])
            hi == ShardEnd(Len(written), args.shard[1], args.shard[2])
        IN  /\ pc # "error"
            /\ IsPrefix(out, Records(lo, hi))
            /\ (pc = "done" => out = Records(lo, hi))

\* The same for files of at least two records, whose index loads.
C5_ShardYieldsItsRangeOfTwoOrMore ==
    (Indexed /\ args.shard # NoShard /\ Len(written) >= 2) =>
        LET lo == ShardStart(Len(written), args.shard[1], args.shard[2])
            hi == ShardEnd(Len(written), args.shard[1], args.shard[2])
        IN  /\ pc # "error"
            /\ IsPrefix(out, Records(lo, hi))
            /\ \A k \in 1..Len(views) : views[k].at = FrameStart(lo + k)
            /\ (pc = "done" => out = Records(lo, hi))

\* The file order rotated to start at its record r (from 0).
Rotation(r) == Records(r, Len(written)) \o Records(0, r)

\* C6: with the index of a well-formed file of N >= 1 records and no shard,
\* whichever offset is drawn, the reader yields the records from the drawn one
\* to the end of the file and then those from offset 0 up to the drawn one:
\* every record once.
C6_RotationYieldsEveryRecordOnce ==
    (Indexed /\ args.shard = NoShard /\ Len(written) >= 1) =>
        /\ pc # "error"
        /\ (pc # "created" =>
              /\ offset \in { FrameStart(k) : k \in 1..Len(written) }
              /\ IsPrefix(out, Rotation(RecordAt(offset))))
        /\ (pc = "done" => out = Rotation(RecordAt(offset)) /\ Len(out) = Len(written))

\* The same for files of at least two records, whose index loads.
C6_RotationOfTwoOrMore ==
    (Indexed /\ args.shard = NoShard /\ Len(written) >= 2) =>
        /\ pc # "error"
        /\ (pc # "created" =>
              /\ offset \in { FrameStart(k) : k \in 1..Len(written) }
              /\ IsPrefix(out, Rotation(RecordAt(offset))))
        /\ (pc = "done" => out = Rotation(RecordAt(offset)) /\ Len(out) = Len(written))

\* C7: for a well-formed file of N frames create_index writes N lines, the
\* k-th holding the offset at which the k-th frame starts and the frame's
\* length 8 + 4 + payload length + 4; it stops at the clean end of the file.
C7_IndexHoldsOffsetAndLengthOfEveryFrame ==
    (index_file.exists /\ Intact) =>
        /\ Len(index_file.rows) = Len(written)
        /\ ~index_failed
        /\ \A k \in 1..Len(written) :
              /\ Len(index_file.rows[k]) = 2
              /\ ParseInt(index_file.rows[k][1]) = FrameStart(k)
              /\ index_file.rows[k][1] = Str(FrameStart(k))
              /\ ParseInt(index_file.rows[k][2]) = FrameLen(Len(written[k]))
              /\ (k = 1 => ParseInt(index_file.rows[k][1]) = 0)
              /\ (k > 1 => ParseInt(index_file.rows[k][1]) =
                             ParseInt(index_file.rows[k - 1][1])
                             + ParseInt(index_file.rows[k - 1][2]))

\* C7 happens: an index of three lines, the frames of different lengths.
C7_Witness ==
    /\ index_file.exists /\ Intact
    /\ Len(index_file.rows) = 3
    /\ index_file.rows[2][2] # index_file.rows[3][2]

\* C4: the ranges [floor(N*i/W), floor(N*(i+1)/W)) of shards i = 0..W-1 are
\* pairwise disjoint, their union is [0, N), and each holds floor(N/W) or
\* ceil(N/W) record indices.
C4_ShardRangesPartitionTheRecords ==
    LET floor == record_count \div shard_count
        ceil == (record_count + shard_count - 1) \div shard_count
    IN  /\ \A k \in 1..Len(ranges) :
              /\ 0 <= ranges[k][1]
              /\ ranges[k][1] <= ranges[k][2]
              /\ ranges[k][2] <= record_count
              /\ ranges[k][2] - ranges[k][1] \in {floor, ceil}
        /\ \A j, k \in 1..Len(ranges) :
              j < k => \A r \in 0..(record_count - 1) :
                         ~(/\ ranges[j][1] <= r /\ r < ranges[j][2]
                           /\ ranges[k][1] <= r /\ r < ranges[k][2])
        /\ (ranges # <<>> /\ Len(ranges) = shard_count =>
              \A r \in 0..(record_count - 1) :
                 \E k \in 1..Len(ranges) : ranges[k][1] <= r /\ r < ranges[k][2])

\* C4 happens: every range of a split that does not divide evenly is
\* computed, and two of the ranges differ in size.
C4_Witness ==
    /\ Len(ranges) = shard_count
    /\ shard_count >= 2
    /\ record_count % shard_count # 0
    /\ \E j, k \in 1..Len(ranges) :
          ranges[j][2] - ranges[j][1] # ranges[k][2] - ranges[k][1]

\* The records of source s among the first m yielded, in the order yielded.
RECURSIVE FromSource(_, _)
FromSource(s, m) ==
    IF m = 0 THEN <<>>
    ELSE IF sout[m][1] = s THEN Append(FromSource(s, m - 1), sout[m][2])
    ELSE FromSource(s, m - 1)

RECURSIVE Total(_, _)
\* sizes[1] + ... + sizes[k]
Total(sizes, k) == IF k = 0 THEN 0 ELSE sizes[k] + Total(sizes, k - 1)

\* What is left to do in finite mode: the records not yet yielded and the
\* sources not yet removed.
Remaining ==
    IF spc = "new" THEN Total(sources, Len(sources)) + Len(sources)
    ELSE Len(iterators)
         + Total([i \in 1..Len(iterators) |->
                     sources[iterators[i].src] - iterators[i].pos], Len(iterators))

\* C8 (state part): in finite mode what is yielded is an interleaving of the
\* sources' streams, each source's records in its own order and once; the
\* sampler stops exactly when every source is exhausted and removed, and has
\* then yielded as many records as the sources hold together.
C8_FiniteInterleaving ==
    ~infinite =>
        /\ spc # "spinning"
        /\ \A s \in 1..Len(sources) :
              LET mine == FromSource(s, Len(sout))
              IN  /\ Len(mine) <= sources[s]
                  /\ \A j \in 1..Len(mine) : mine[j] = j
                  /\ (spc = "stopped" => Len(mine) = sources[s])
        /\ (spc = "stopped" <=> spc # "new" /\ iterators = <<>>)
        /\ (spc = "stopped" => Len(sout) = Total(sources, Len(sources)))
        /\ (spc # "new" =>
              /\ Len(ratios) = Len(iterators)
              /\ \A i \in 1..Len(iterators) :
                    iterators[i].pos = Len(FromSource(iterators[i].src, Len(sout))))

\* C8: the state part, and for every draw each pass of the loop either yields
\* a record or removes an exhausted source, so that the sampler stops after
\* at most (records + sources) passes.
C8_FiniteSamplerYieldsAllThenStops ==
    /\ []C8_FiniteInterleaving
    /\ [][~infinite /\ spc # "stopped" => Remaining' = Remaining - 1]_vars

\* C8 happens: two sources of two records each were interleaved and the
\* sampler stopped.
C8_Witness ==
    /\ ~infinite /\ spc = "stopped"
    /\ Len(sources) = 2 /\ sources[1] = 2 /\ sources[2] = 2
    /\ Len(sout) = 4
    /\ sout[1][1] # sout[2][1] /\ sout[2][1] # sout[3][1]

\* Every iteration of the dataset the data loader asked for has ended.
LoaderDone == spc = "stopped" /\ worker = Iterations - 1

\* C9: a finite MultiTFRecordDataset delivers through the data loader as
\* many records as its sources hold together, whatever the number of workers.
C9_LoaderDeliversEachRecordOnce ==
    LoaderDone => delivered = Total(sources, Len(sources))

\* What the code does instead: every iteration delivers every record.
C9_LoaderDeliversOncePerIteration ==
    LoaderDone => delivered = Iterations * Total(sources, Len(sources))

\* In infinite mode the sampler never stops and never removes a source or a
\* ratio; a source's records come in its stream's order, again from the
\* first when the stream is exhausted, its factory having been called once
\* for every pass begun.
InfiniteSamplerKeepsSources ==
    infinite =>
        /\ spc # "stopped"
        /\ (spc # "new" =>
              /\ Len(iterators) = Len(sources)
              /\ \A i \in 1..Len(iterators) : iterators[i].src = i
              /\ ratios = StartRatios)
        /\ \A s \in 1..Len(sources) :
              LET mine == FromSource(s, Len(sout))
              IN  /\ \A j \in 1..Len(mine) : mine[j] = ((j - 1) % sources[s]) + 1
                  /\ (sources[s] > 0 =>
                        opened[s] = (Len(mine) + sources[s] - 1) \div sources[s])

\* C10: in infinite mode the sampler never ends and keeps every source, and
\* the pull on an exhausted source is served from the stream its factory
\* makes anew: no pull is left without its record.
C10_InfiniteSamplerReopensSources ==
    /\ InfiniteSamplerKeepsSources
    /\ (infinite => spc # "spinning")

\* When every source holds a record, C10 holds.
C10_OfNonEmptySources ==
    (\A s \in 1..Len(sources) : sources[s] > 0) => C10_InfiniteSamplerReopensSources

\* C10 happens: a source of two records was drawn a third time, its stream
\* made again, and the other source is still there.
C10_Witness ==
    /\ infinite
    /\ Len(sources) = 2
    /\ \E s \in 1..2 :
          /\ sources[s] = 2
          /\ Len(FromSource(s, Len(sout))) = 3
          /\ opened[s] = 2
          /\ sout[Len(sout)] = <<s, 1>>
    /\ Len(iterators) = 2

\* How often item x occurs in the sequence q.
Count(q, x) == Cardinality({i \in 1..Len(q) : q[i] = x})

\* The sequences a and b hold the same items equally often.
SameItems(a, b) == Len(a) = Len(b) /\ \A x \in Items : Count(a, x) = Count(b, x)

\* C11: for every queue_size and every upstream of at least queue_size items
\* the items yielded when shuffle_iterator stops are a permutation of
\* upstream, none lost and none duplicated.
C11_ShuffleYieldsPermutation ==
    Len(upstream) >= queue_size /\ shpc = "stopped" => SameItems(shout, upstream)

\* With a queue_size of at least one the output is a permutation, and at every
\* moment the items yielded, those buffered and those upstream still holds
\* make up upstream.
C11_OfPositiveQueueSize ==
    queue_size >= 1 /\ shpc # "off" =>
        /\ (shpc = "stopped" => SameItems(shout, upstream))
        /\ (shpc # "new" =>
              SameItems(shout \o buffer \o SubSeq(upstream, consumed + 1, Len(upstream)),
                        upstream))

\* C12: an upstream shorter than queue_size makes shuffle_iterator warn, and
\* all its items are still yielded once each before the generator stops (it
\* has no path that raises); an upstream of at least queue_size items makes
\* no warning.
C12_ShortUpstreamWarnsAndYieldsAll ==
    shpc \in {"suspended", "stopped"} =>
        /\ warned <=> Len(upstream) < queue_size
        /\ (Len(upstream) < queue_size =>
              /\ Len(buffer) = Len(upstream) - Len(shout)
              /\ SameItems(shout \o buffer, upstream)
              /\ (shpc = "stopped" => SameItems(shout, upstream)))

\* C12 happens: an upstream of two items and a queue_size of three; the
\* warning was made, both items were yielded, the later one first, and the
\* generator stopped.
C12_Witness ==
    /\ Len(upstream) = 2 /\ queue_size = 3
    /\ upstream[1] # upstream[2]
    /\ warned
    /\ shpc = "stopped"
    /\ shout = <<upstream[2], upstream[1]>>

\* The key the n-th item of the description names.
DescribedKey(n) ==
    IF description.form = "dict" THEN description.items[n][1] ELSE description.items[n]

\* Whether the datum written holds the key k.
HasKey(k) == \E i \in 1..Len(datum) : datum[i][1] = k

\* The items of the description that name a key the record lacks.
AbsentNamed == {n \in 1..Len(description.items) : ~HasKey(DescribedKey(n))}

\* Whether the description asks for every key of the record.
AsksAll == description.form = "None" \/ description.items = <<>>

\* C13: when the description names a key the record lacks, the load raises
\* a KeyError that names that key and all the keys of the record, and no
\* record is decoded; when the description is None or empty every key of the
\* record is decoded and there is no KeyError.
C13_AbsentKeyIsMissingKeyError ==
    dpc = "done" =>
        /\ (AbsentNamed # {} =>
              /\ ~decoded.ok
              /\ decoded.err.type = "KeyError"
              /\ \E n \in AbsentNamed : decoded.err.key = DescribedKey(n)
              /\ decoded.err.all_keys = Keys(datum))
        /\ (AsksAll =>
              /\ decoded.ok
              /\ Keys(decoded.value) = Keys(datum))

\* What the loop does: the keys are decoded in the order of the description
\* and the first failure is the one raised.  A key the record lacks gives
\* the KeyError only when every key before it decoded; no record is decoded
\* either way.  With None or an empty description there is never a KeyError,
\* and the record is decoded unless a key fails to decode.
C13_FirstFailureInOrder ==
    dpc = "done" =>
        /\ \A n \in 1..Len(calls) : n < Len(calls) \/ decoded.ok => calls[n].result.ok
        /\ (AbsentNamed # {} =>
              LET first == CHOOSE n \in AbsentNamed : \A m \in AbsentNamed : n <= m
              IN  /\ ~decoded.ok
                  /\ Len(calls) < first
                  /\ (Len(calls) = first - 1 /\ (calls = <<>> \/ calls[Len(calls)].result.ok)
                        => /\ decoded.err.type = "KeyError"
                           /\ decoded.err.key = DescribedKey(first)
                           /\ decoded.err.all_keys = Keys(datum))
                  /\ (calls # <<>> /\ ~calls[Len(calls)].result.ok
                        => decoded.err = calls[Len(calls)].result.err))
        /\ (AsksAll =>
              /\ (~decoded.ok => decoded.err.type # "KeyError")
              /\ (decoded.ok => Keys(decoded.value) = Keys(datum))
              /\ (decoded.ok <=>
                    \A i \in 1..Len(datum) :
                        datum[i][2].dtype = "byte" => datum[i][2].value # <<>>))

\* What the datum written holds under the key k.
WrittenAt(k) == datum[CHOOSE i \in 1..Len(datum) : datum[i][1] = k][2]

\* C14: a call of process_feature with a declared typename whose member
\* differs from the one encoded for the key raises a TypeError naming the
\* key, the typename asked and the typename of the member encoded, and the
\* load ends with that error; a call with the typename of the member
\* encoded, or with none (list, None or empty description), raises no
\* TypeError.
C14_DeclaredTypeMismatchIsTypeError ==
    \A n \in 1..Len(calls) :
        LET c == calls[n]
            encoded == typename_mapping[WrittenAt(c.key).dtype]
            differs == c.typename # None /\ typename_mapping[c.typename] # encoded
        IN  /\ c.kind = encoded
            /\ (description.form # "dict" \/ description.items = <<>> => c.typename = None)
            /\ (differs =>
                  /\ ~c.result.ok
                  /\ c.result.err.type = "TypeError"
                  /\ c.result.err.key = c.key
                  /\ c.result.err.typename = c.typename
                  /\ c.result.err.should = WrittenAt(c.key).dtype
                  /\ n = Len(calls)
                  /\ decoded = [ok |-> FALSE, err |-> c.result.err])
            /\ (~differs => c.result.ok \/ c.result.err.type # "TypeError")

\* C14 happens: the key "a" written as the int 123 and declared "float"; the
\* load ended with the TypeError naming "a", "float" and "int".
C14_Witness ==
    /\ dpc = "done"
    /\ Len(datum) = 1 /\ datum[1][1] = KeyA
    /\ datum[1][2].dtype = "int" /\ ~datum[1][2].listed
    /\ description.form = "dict" /\ Len(description.items) = 1
    /\ description.items[1] = <<KeyA, "float">>
    /\ ~decoded.ok
    /\ decoded.err.type = "TypeError"
    /\ decoded.err.typename = "float"
    /\ decoded.err.key = KeyA
    /\ decoded.err.should = "int"

\* What the claim says a written value reads back as: the integers as they
\* are, as int64; the floats each as the nearest 32-bit float; of the byte
\* sequences the first.
ReadsBackAs(w) ==
    CASE w.dtype = "int" -> [dtype |-> "int64", value |-> w.value]
      [] w.dtype = "float" ->
            [dtype |-> "float32",
             value |-> Tuple([i \in 1..Len(w.value) |-> Float32(w.value[i])])]
      [] w.dtype = "byte" -> [dtype |-> "bytes", value |-> w.value[1]]

\* Whether v, a decoded value, is what w reads back as.
IsReadBack(v, w) ==
    /\ w.dtype = "byte" => w.value # <<>>
    /\ v.dtype = ReadsBackAs(w).dtype
    /\ v.value = ReadsBackAs(w).value

\* C19: a datum written by TFRecordWriter and read back by example_loader
\* is decoded key by key by the type it was encoded with: an int key gives
\* all the integers written, in order, as int64 (123 gives [123]); a float
\* key all the floats in order as float32; a byte key the first byte
\* sequence written, the others being dropped without error.  Every key of
\* the datum comes back when the description asks for all of them and each
\* byte key was written with a sequence to take.
C19_ReadBackByEncodedType ==
    dpc = "done" =>
        /\ \A n \in 1..Len(calls) :
              calls[n].result.ok =>
                  IsReadBack(calls[n].result.value, WrittenAt(calls[n].key))
        /\ (decoded.ok =>
              \A i \in 1..Len(decoded.value) :
                  /\ HasKey(decoded.value[i][1])
                  /\ IsReadBack(decoded.value[i][2], WrittenAt(decoded.value[i][1])))
        /\ (AsksAll /\ (\A i \in 1..Len(datum) :
                            datum[i][2].dtype = "byte" => datum[i][2].value # <<>>)
              => decoded.ok /\ Keys(decoded.value) = Keys(datum))

\* C19 happens: {"a": (123, "int"), "b": ([b"t1", b"t2"], "byte")} written
\* and loaded with no description gives [123] under "a" and b"t1" under "b".
C19_Witness ==
    /\ dpc = "done"
    /\ Len(datum) = 2
    /\ datum[1][2].dtype = "int" /\ ~datum[1][2].listed
    /\ datum[2][2].dtype = "byte" /\ Len(datum[2][2].value) = 2
    /\ description.form = "None"
    /\ decoded.ok
    /\ Keys(decoded.value) = <<KeyA, KeyB>>
    /\ decoded.value[1][2].dtype = "int64"
    /\ decoded.value[1][2].value = <<123>>
    /\ decoded.value[2][2].dtype = "bytes"
    /\ decoded.value[2][2].value = <<116, 49>>

\* C15: a reader called with a compression_type other than None and "gzip"
\* raises the ValueError of the configuration when its setup runs (the first
\* pull on the generator) and before any I/O: the file is never opened, no
\* byte is read and nothing is yielded; with None or "gzip" that error is
\* never raised.
C15_UnknownCompressionRaisesBeforeIO ==
    /\ (args.called /\ args.compression_type \notin {None, "gzip"} =>
          /\ pc \in {"created", "error"}
          /\ handle = "unopened"
          /\ pos = 0
          /\ views = <<>>
          /\ out = <<>>
          /\ (pc = "created" => error = None)
          /\ (pc = "error" => error = CompressionError))
    /\ (args.called /\ args.compression_type \in {None, "gzip"} =>
          error # CompressionError)

\* C15 happens: a file of two records with its index, read under "zip": the
\* pull raised the ValueError and the file was not opened.
C15_Witness ==
    /\ args.called
    /\ args.compression_type = "zip"
    /\ args.index_path /\ index_file.exists
    /\ Len(written) = 2
    /\ pc = "error"
    /\ error = CompressionError
    /\ handle = "unopened"

\* C16: the handle tfrecord_iterator opened is released on every exit path:
\* in no state has the generator ended, by exhaustion or by an error, with
\* its handle still open.
C16_HandleReleasedOnEveryExit ==
    pc \in {"done", "error"} => handle # "open"

\* file.close() is the last statement of the generator and nothing guards
\* it: the handle is closed when the stream is exhausted, and left open by
\* every error raised after the file was opened.
C16_HandleClosedOnlyOnExhaustion ==
    /\ (pc = "done" => handle = "closed")
    /\ (pc = "error" /\ error # CompressionError => handle = "open")
    /\ (pc = "error" /\ error = CompressionError => handle = "unopened")

\* C20: fewer than 8 bytes left where a frame's length field should start,
\* none or 1 to 7 stray ones, end the sequential read cleanly: the error of
\* the record size is never raised.
C20_ShortLengthFieldEndsCleanly ==
    Sequential /\ pc = "error" => error # "Failed to read the record size."

\* With no byte left the read ends cleanly; with 1 to 7 bytes left where a
\* length field should start it raises the error of the record size, and it
\* raises that error in no other case.
C20_StrayBytesRaise ==
    Sequential =>
        /\ (pc = "done" => pos = Len(file))
        /\ (pc = "error" =>
              (error = "Failed to read the record size." <=> Len(file) - pos \in 1..7))

\* The first column of the index file, line by line.
FirstColumn ==
    [i \in 1..Len(index_file.rows) |-> ParseInt(index_file.rows[i][1])]

\* Whether the reader was pulled with an index file of at least one line.
PulledWithIndex ==
    /\ args.called /\ args.index_path
    /\ index_file.exists /\ index_file.rows # <<>>
    /\ pc \notin {"none", "created"}

\* C18: the reader takes an index file of one column as well as one of two
\* or more, a single line included: loading it raises nothing, the offsets
\* it uses are the values of the first column, one per line, and the offset
\* a read without shard starts from is one of them.
C18_OffsetsAreTheFirstColumn ==
    PulledWithIndex =>
        /\ LoadIndex(index_file).ok
        /\ LoadIndex(index_file).index = FirstColumn
        /\ error \notin {"IndexError", "ValueError"}
        /\ (args.shard = NoShard => \E i \in 1..Len(FirstColumn) : offset = FirstColumn[i])

\* np.loadtxt(...)[:, 0] takes the first column of a table of at least two
\* lines and at least two columns, and raises IndexError for every other
\* index file that has a line: one column, or a single line.
C18_OnlyTablesLoad ==
    PulledWithIndex =>
        IF Len(index_file.rows) >= 2 /\ Len(index_file.rows[1]) >= 2
        THEN /\ LoadIndex(index_file).ok
             /\ LoadIndex(index_file).index = FirstColumn
             /\ error \notin {"IndexError", "ValueError"}
             /\ (args.shard = NoShard =>
                   \E i \in 1..Len(FirstColumn) : offset = FirstColumn[i])
        ELSE pc = "error" /\ error = "IndexError" /\ views = <<>>

\* Whether source s, whose file is whole, has records the sampler did not
\* yield: an infinite sampler always has more of it to give.
Undelivered(s) ==
    s \notin faulty /\ sources[s] >= 1
        /\ (infinite \/ Len(FromSource(s, Len(sout))) < sources[s])

\* C17: the RuntimeError of one source's stream does not block the other
\* sources: a pull on the sampler after the error surfaced still delivers
\* the records of the sources whose files are whole, so a pull gives nothing
\* only when none of them has a record left.
C17_OtherSourcesDeliverAfterError ==
    spc = "finished" => \A s \in 1..Len(sources) : ~Undelivered(s)

\* sample_iterators catches StopIteration alone: the RuntimeError of a
\* source leaves the generator, no source is removed, and no pull after it
\* yields a record, whatever is left in the other sources.
C17_ErrorFinishesTheSampler ==
    [][(spc \in {"raised", "finished"}) =>
          (sout' = sout /\ iterators' = iterators /\ spc' \in {"raised", "finished"})]_vars

\* How many frames of the file written lie whole before the cut.
WholeFrames ==
    Cardinality({k \in 1..Len(written) : FrameStart(k + 1) <= damage.at})

\* Whether the file was cut inside a frame and then indexed.
IndexedCutFrame ==
    /\ index_file.exists
    /\ damage.kind = "truncate"
    /\ damage.at # FrameStart(WholeFrames + 1)

\* C21: create_index on a file cut inside a frame (inside its length field,
\* its length checksum, its payload or its payload checksum) prints its
\* diagnostic and writes no line for that frame; the lines of the whole
\* frames before it are in the index.
C21_CutFrameStopsIndexing ==
    IndexedCutFrame =>
        /\ index_failed
        /\ Len(index_file.rows) = WholeFrames
        /\ \A k \in 1..WholeFrames :
              index_file.rows[k] = <<Str(FrameStart(k)), Str(FrameLen(Len(written[k])))>>

\* What create_index does with the frame that was cut: only a length field
\* of 1 to 7 bytes makes unpack raise, and then the diagnostic is printed and
\* no line written; a cut further on is met by reads that return fewer bytes
\* and raise nothing, a line with the bytes that are left is written for the
\* frame and no diagnostic is printed.  The lines of the whole frames are
\* written either way.
C21_OnlyCutLengthFieldFails ==
    IndexedCutFrame =>
        LET left == damage.at - FrameStart(WholeFrames + 1)
        IN  /\ Len(index_file.rows) >= WholeFrames
            /\ \A k \in 1..WholeFrames :
                  index_file.rows[k]
                      = <<Str(FrameStart(k)), Str(FrameLen(Len(written[k])))>>
            /\ (index_failed <=> left < 8)
            /\ (left < 8 => Len(index_file.rows) = WholeFrames)
            /\ (left >= 8 =>
                  /\ Len(index_file.rows) = WholeFrames + 1
                  /\ index_file.rows[WholeFrames + 1]
                        = <<Str(FrameStart(WholeFrames + 1)), Str(left)>>)

\* The source of the i-th active iterator, and the sum of the weights of
\* the active sources.
ActiveSource(i) == iterators[i].src

RECURSIVE ActiveWeight(_)
ActiveWeight(m) == IF m = 0 THEN 0 ELSE weights[ActiveSource(m)] + ActiveWeight(m - 1)

\* C22: whenever sample_iterators is about to draw, ratios has one entry per
\* active source in the order of the source list, each the source's
\* original weight over the sum of the weights of the active sources: they
\* sum to 1 and stand to one another as the original weights do.  In finite
\* mode the sources removed are the exhausted ones, each with its ratio, the
\* rest being renormalized; in infinite mode ratios never changes.
C22_RatiosAreActiveWeightsNormalized ==
    spc \in {"loop", "suspended", "stopped", "spinning"} =>
        /\ Len(ratios) = Len(iterators)
        /\ \A i, j \in 1..Len(iterators) : i < j => ActiveSource(i) < ActiveSource(j)
        /\ \A i \in 1..Len(iterators) :
              ratios[i] = Frac(weights[ActiveSource(i)], ActiveWeight(Len(iterators)))
        /\ (iterators # <<>> => FracSum(ratios) = Frac(1, 1))
        /\ \A i, j \in 1..Len(iterators) :
              ratios[i].n * ratios[j].d * weights[ActiveSource(j)]
                  = ratios[j].n * ratios[i].d * weights[ActiveSource(i)]
        /\ (infinite => ratios = StartRatios /\ Len(iterators) = Len(sources))
        /\ (~infinite =>
              \A s \in 1..Len(sources) :
                  (\A i \in 1..Len(iterators) : ActiveSource(i) # s)
                      => Len(FromSource(s, Len(sout))) = sources[s])

\* C22 happens: of three sources with the weights 4, 1 and 2 the first was
\* exhausted and removed; the two left have the ratios 1/3 and 2/3.
C22_Witness ==
    /\ ~infinite
    /\ weights = <<4, 1, 2>>
    /\ spc \in {"loop", "suspended"}
    /\ Len(iterators) = 2
    /\ ActiveSource(1) = 2 /\ ActiveSource(2) = 3
    /\ ratios = <<Frac(1, 3), Frac(2, 3)>>
    /\ sout # <<>>

\* How many items the filling puts into the buffer, and how many upstream
\* holds beyond them.
Filled == Min(queue_size, Len(upstream))

Spare == Len(upstream) - Filled

\* C23: the buffer of shuffle_iterator never holds more than queue_size
\* items.  After each yield that upstream could still refill (the first
\* Spare ones) it holds as many as the filling gave it, queue_size when
\* upstream had that many, the slot yielded being refilled before the
\* yield; every yield after that leaves it one item shorter, until it is
\* empty and the generator stops.
C23_BufferBoundedAndRefilled ==
    /\ Len(buffer) <= queue_size
    /\ (shpc \in {"suspended", "stopped"} =>
          /\ (Len(shout) <= Spare =>
                /\ Len(buffer) = Filled
                /\ consumed = Filled + Len(shout))
          /\ (Len(shout) > Spare =>
                /\ Len(buffer) = Filled - (Len(shout) - Spare)
                /\ consumed = Len(upstream))
          /\ (Len(upstream) >= queue_size /\ Len(shout) <= Spare
                => Len(buffer) = queue_size)
          /\ (shpc = "stopped" => buffer = <<>>))

\* C23 happens: three items upstream and a queue_size of two; after the
\* first yield the buffer held two items again, after the second one.
C23_Witness ==
    /\ Len(upstream) = 3 /\ queue_size = 2
    /\ shpc = "suspended"
    /\ Len(shout) = 2
    /\ Len(buffer) = 1
    /\ consumed = 3

\* C24: every pull on sample_iterators completes: no pull is ever inside a
\* loop that it does not leave, whatever the sources hold, a source of zero
\* records included.
C24_EveryPullCompletes ==
    spc # "spinning"

\* A pull is caught for ever exactly in infinite mode on drawing a source of
\* zero records: cycle makes its stream again and again and yields nothing.
\* In finite mode, and over sources that all hold a record, every pull
\* completes.
C24_OnlyEmptySourceBlocks ==
    /\ (spc = "spinning" =>
          /\ infinite
          /\ \E i \in 1..Len(iterators) :
                sources[iterators[i].src] = 0 /\ opened[iterators[i].src] >= 1)
    /\ (~infinite \/ (\A s \in 1..Len(sources) : sources[s] >= 1) => spc # "spinning")

\* Whether the legacy iterator was pulled on a file of at least one record
\* with the index create_index made of it.
LegacyPulled == lpc \notin {"none", "created"} /\ Len(written) >= 1

\* C25: the legacy tfrecord_iterator with an index yields, whichever offset
\* is drawn from the index (0 included), the records from the drawn one to
\* the end of the file and then those from offset 0 up to the drawn one:
\* every record of the file exactly once.
C25_LegacyRotationYieldsEveryRecordOnce ==
    LegacyPulled =>
        /\ lpc # "error"
        /\ IsPrefix(lout, Rotation(RecordAt(loffset)))
        /\ (lpc = "done" =>
              lout = Rotation(RecordAt(loffset)) /\ Len(lout) = Len(written))

\* What it yields when every record fits datum_bytes: for a drawn offset
\* beyond 0 the rotation, every record once; for the offset 0 all the
\* records and then, the loop from 0 yielding before it compares
\* file.tell() with the offset, the first record a second time.
C25_LegacyRepeatsFirstRecordFromOffsetZero ==
    (LegacyPulled /\ \A k \in 1..Len(written) : Len(written[k]) <= DatumBytesLen) =>
        /\ lpc # "error"
        /\ (loffset > 0 =>
              /\ IsPrefix(lout, Rotation(RecordAt(loffset)))
              /\ (lpc = "done" => lout = Rotation(RecordAt(loffset))))
        /\ (loffset = 0 =>
              /\ IsPrefix(lout, Append(written, written[1]))
              /\ (lpc = "done" => lout = Append(written, written[1])))
(***************************************************************************)
(* C26: the masked checksum.                                               *)
(***************************************************************************)
\* The 32-bit word c rotated right by k places.
Rotr32(c, k) == Tuple([i \in 1..32 |-> c[((i - 1 + k) % 32) + 1]])

\* (a + b) mod 2^32 of two 32-bit words.
AddMod32(a, b) == Low32(BitAdd(a, b))

\* The little-endian packing of (rotr32(c, 15) + 0xa282ead8) mod 2^32.
RotatedMasked(c) == PackI(AddMod32(Rotr32(c, 15), CrcMask))

RECURSIVE RotatedFrames(_)
\* The frames of the records: length field, payload, each followed by the
\* rotated and masked checksum of its own bytes.
RotatedFrames(records) ==
    IF records = <<>> THEN <<>>
    ELSE LET length_bytes == PackLE(Len(Head(records)), 8)
         IN  length_bytes \o RotatedMasked(crc32c(length_bytes))
             \o Head(records) \o RotatedMasked(crc32c(Head(records)))
             \o RotatedFrames(Tail(records))

\* C26: for every 32-bit checksum value c the masking gives the
\* little-endian packing of (rotr32(c, 15) + 0xa282ead8) mod 2^32, although
\* the left shift by 17 keeps 49 bits; and the file write made holds, for
\* every record, the length field and the payload each followed by that
\* masking of its own CRC32C.
C26_MaskedCrcIsRotateRight15PlusMask ==
    /\ (crc_masked # <<>> => crc_masked = RotatedMasked(crc_value))
    /\ file = RotatedFrames(written)

\* A value whose left shift runs past 32 bits is masked, and two records
\* are framed.
C26_Witness ==
    /\ crc_masked # <<>>
    /\ crc_value[32] = 1 /\ crc_value[16] = 1
    /\ \E i \in 33..49 : ShiftLeft(crc_value, 17)[i] = 1
    /\ Len(written) >= 2
    /\ written[1] # written[2]

(***************************************************************************)
(* C27: the views yielded and the scratch buffer.                          *)
(***************************************************************************)
\* What the view v on the bytearrays bufs shows now.
ViewNow(bufs, v) == SubSeq(bufs[v.buf], 1, v.len)

\* The bytearrays of a reader after one more record: a record longer than
\* the current bytearray goes into a new one of 1.5 times its length, any
\* other over the first bytes of the current one.
ScratchStep(bufs, record) ==
    LET cur == bufs[Len(bufs)]
        n == Len(record)
        width == (3 * n) \div 2
    IN  IF n > Len(cur)
        THEN Append(bufs, record \o SubSeq(Zfill(cur, width), n + 1, width))
        ELSE [bufs EXCEPT ![Len(bufs)] = record \o SubSeq(cur, n + 1, Len(cur))]

RECURSIVE Scratch(_, _)
\* The bytearrays of a reader after the records, from the bytearrays bufs.
Scratch(bufs, records) ==
    IF records = <<>> THEN bufs
    ELSE Scratch(ScratchStep(bufs, Head(records)), Tail(records))

\* The bytearray a reader starts with.
FreshScratch == << Tuple([i \in 1..DatumBytesLen |-> 0]) >>

\* The later views of vs on the bytearray of view k.
LaterOnSameBuffer(vs, k) == { j \in (k + 1)..Len(vs) : vs[j].buf = vs[k].buf }

\* The greatest element of a non-empty set of numbers.
Greatest(S) == CHOOSE j \in S : \A i \in S : i <= j

\* A reader with bytearrays bufs, views vs and records yielded recs: the
\* bytearrays are what the reader's own records made of a fresh one; view k
\* held record k when it was yielded and is on the bytearray then current;
\* it still shows record k unless a later record went into the same
\* bytearray, and then its first bytes are those of the last such record.
OwnScratch(bufs, vs, recs) ==
    /\ Len(vs) = Len(recs)
    /\ recs = SubSeq(written, 1, Len(recs))
    /\ bufs = Scratch(FreshScratch, recs)
    /\ \A k \in 1..Len(vs) :
          /\ vs[k].len = Len(recs[k])
          /\ vs[k].buf = Len(Scratch(FreshScratch, SubSeq(recs, 1, k)))
          /\ IF LaterOnSameBuffer(vs, k) = {}
             THEN ViewNow(bufs, vs[k]) = recs[k]
             ELSE LET last == recs[Greatest(LaterOnSameBuffer(vs, k))]
                      m == Min(vs[k].len, Len(last))
                  IN  SubSeq(ViewNow(bufs, vs[k]), 1, m) = SubSeq(last, 1, m)

\* C27 as stated: every retained view of length m shows the first m bytes
\* of the reader's scratch buffer as the later record overwrote them, so
\* that a file of two or more records collected with list() does not give
\* each record's own bytes; and the buffers of two readers are apart.
C27_RetainedViewsShowTheLaterRecord ==
    /\ out = SubSeq(written, 1, Len(out))
    /\ \A k \in 1..(Len(views) - 1) :
          ViewNow(buffers, views[k]) = SubSeq(buffers[Len(buffers)], 1, views[k].len)
    /\ (pc = "done" /\ Len(written) >= 2) =>
          \E k \in 1..Len(views) : ViewNow(buffers, views[k]) # written[k]
    /\ second.buffers = Scratch(FreshScratch, second.out)

\* C27, amended: every view references the bytearray that was the reader's
\* scratch buffer at its pull and shows its first m bytes; a later record
\* overwrites them only while that bytearray is kept, and a view on a
\* replaced bytearray keeps what it showed; the bytearrays of a reader are
\* made by its own records only, whatever another reader of the file pulls.
C27_ViewsShowTheirOwnBytearray ==
    /\ OwnScratch(buffers, views, out)
    /\ OwnScratch(second.buffers, second.views, second.out)

\* The first reader has pulled a record of two bytes and then one of one
\* byte into the same bytearray, the second reader only the first record:
\* the first reader's view of record 1 is overwritten, the second's is not.
C27_Witness ==
    /\ Len(views) = 2
    /\ Len(second.views) = 1
    /\ views[1].buf = views[2].buf
    /\ views[1].len = 2 /\ views[2].len = 1
    /\ ViewNow(buffers, views[1]) # out[1]
    /\ ViewNow(second.buffers, second.views[1]) = out[1]

(***************************************************************************)
(* C28: a shard without an index.                                          *)
(***************************************************************************)
\* The generators that have delivered record k of the file as their k-th.
DeliveredBy(k) ==
    { w \in 1..Len(dataset.its) :
        Len(dataset.its[w].out) >= k /\ dataset.its[w].out[k] = written[k] }

\* Every worker's generator has returned.
WorkersDone == \A w \in 1..Len(dataset.its) : dataset.its[w].pc = "done"

\* C28: without an index path the reader ignores its shard (i, W) and yields
\* the whole file in order from offset 0; each of the W workers of a
\* TFRecordDataset without an index so yields all N records, and every
\* record is delivered W times in total.
C28_ShardIgnoredWithoutIndex ==
    (dataset.iterated /\ ~dataset.index_path /\ dataset.num_workers >= 1) =>
        /\ Len(dataset.its) = dataset.num_workers
        /\ \A w \in 1..Len(dataset.its) :
              LET g == dataset.its[w]
              IN  /\ WorkerArgs(w).shard = <<w - 1, dataset.num_workers>>
                  /\ g.pc # "error"
                  /\ g.out = SubSeq(written, 1, Len(g.out))
                  /\ (g.pc = "done" => g.out = written)
        /\ WorkersDone =>
              \A k \in 1..Len(written) : Cardinality(DeliveredBy(k)) = dataset.num_workers

\* Two workers have read a file of two or more records without an index to
\* its end, and each has yielded all of it.
C28_Witness ==
    /\ dataset.iterated /\ ~dataset.index_path
    /\ dataset.num_workers = 2
    /\ Len(written) >= 2
    /\ WorkersDone
    /\ \A w \in 1..2 : dataset.its[w].out = written

====
